---- MODULE Spec2Model ----
(***************************************************************************)
(* Radiant Smart (Topband cloud) integration: the data-point codec, the    *)
(* per-point listener registry, the inbound MQTT router and the data-point *)
(* classifier of custom_components/radiant_smart/api.py.                   *)
(***************************************************************************)
EXTENDS Integers, Sequences, FiniteSets, TLC

VARIABLES
    rows,           \* the cloud's device list, as async_get_devices fetches it
    devices,        \* TopbandCloudApi.devices: mac -> SmartDevice
    _mqtt,          \* TopbandCloudApi._mqtt: "None" or "client"
    _mqtt_serial,   \* TopbandCloudApi._mqtt_serial
    subscribed,     \* topics given to _mqtt.subscribe
    published,      \* what _mqtt.publish was given, oldest first
    inbox,          \* the inbound message in flight
    calls,          \* per callback: invocations during the last handler
    cache,          \* per callback: the listening entity's cached native value
    warned,         \* calls of _LOGGER.warning during the last handler
    raised,         \* exception that left the last handler, "none" if it returned
    ret,            \* return value of the last get_value
    last,           \* the last handler run, its arguments and the state before it
    arg,            \* the value the next entity mutator hands to set_value
    sending,        \* per executor thread: how far its send_mqtt_command is
    updating        \* the update_value the MQTT thread is in the middle of

vars == <<rows, devices, _mqtt, _mqtt_serial, subscribed, published, inbox,
          calls, cache, warned, raised, ret, last, arg, sending, updating>>

-----------------------------------------------------------------------------
(* Natural numbers of any size, as bit sequences, most significant bit     *)
(* first and no leading zero (<<>> is 0). Python floats are IEEE-754       *)
(* doubles, whose 53-bit significands do not fit the 32-bit integers of   *)
(* the model checker. Arithmetic runs over limbs of LimbBits bits.        *)

LimbBits == 3 * 4
LimbBase == 2 ^ LimbBits

RECURSIVE BitsOf(_)
BitsOf(n) == IF n = 0 THEN <<>> ELSE Append(BitsOf(n \div 2), n % 2)

RECURSIVE NatOf(_)
NatOf(b) == IF b = <<>> THEN 0 ELSE 2 * NatOf(SubSeq(b, 1, Len(b) - 1)) + b[Len(b)]

Ones(b) == {i \in 1..Len(b) : b[i] = 1}

FirstOne(b) == CHOOSE i \in Ones(b) : \A j \in Ones(b) : i <= j

LastOne(b) == CHOOSE i \in Ones(b) : \A j \in Ones(b) : j <= i

Strip(b) == IF Ones(b) = {} THEN <<>> ELSE SubSeq(b, FirstOne(b), Len(b))

TrailingZeros(b) == IF Ones(b) = {} THEN 0 ELSE Len(b) - LastOne(b)

AnyOne(b) == Ones(b) # {}

Zeros(n) == [i \in 1..n |-> 0]

Shl(b, n) == IF b = <<>> THEN <<>> ELSE b \o Zeros(n)

Pad(b, n) == Zeros(n - Len(b)) \o b

\* the limbs of b, most significant first, n of them
LimbsOf(b, n) ==
    LET p == Pad(b, LimbBits * n)
    IN  [i \in 1..n |-> NatOf(SubSeq(p, LimbBits * (i - 1) + 1, LimbBits * i))]

LimbCount(b) == (Len(b) + LimbBits - 1) \div LimbBits

BitsOfLimbs(l) ==
    Strip([j \in 1..(LimbBits * Len(l)) |->
              (l[((j - 1) \div LimbBits) + 1]
                   \div (2 ^ (LimbBits - 1 - ((j - 1) % LimbBits)))) % 2])

\* l * c + carry over the limbs up to i, for a small natural c
RECURSIVE MulLimbs(_, _, _, _)
MulLimbs(l, c, i, carry) ==
    IF i = 0 THEN IF carry = 0 THEN <<>> ELSE MulLimbs(<<carry>>, 1, 1, 0)
    ELSE LET t == l[i] * c + carry
         IN  Append(MulLimbs(l, c, i - 1, t \div LimbBase), t % LimbBase)

MulSmall(b, c) ==
    LET l == LimbsOf(b, LimbCount(b)) IN BitsOfLimbs(MulLimbs(l, c, Len(l), 0))

\* <<quotient, remainder>> of b by a small natural d
RECURSIVE DivLimbs(_, _, _, _, _)
DivLimbs(l, d, i, r, q) ==
    IF i > Len(l) THEN <<BitsOfLimbs(q), r>>
    ELSE LET t == r * LimbBase + l[i]
         IN  DivLimbs(l, d, i + 1, t % d, Append(q, t \div d))

DivSmall(b, d) == DivLimbs(LimbsOf(b, LimbCount(b)), d, 1, 0, <<>>)

RECURSIVE AddLimbs(_, _, _, _)
AddLimbs(a, b, i, carry) ==
    IF i = 0 THEN <<carry>>
    ELSE LET t == a[i] + b[i] + carry
         IN  Append(AddLimbs(a, b, i - 1, t \div LimbBase), t % LimbBase)

MaxOf(x, y) == IF x > y THEN x ELSE y

AddB(a, b) ==
    LET n == MaxOf(LimbCount(a), LimbCount(b))
    IN  BitsOfLimbs(AddLimbs(LimbsOf(a, n), LimbsOf(b, n), n, 0))

\* a - b, for a >= b
RECURSIVE SubLimbs(_, _, _, _)
SubLimbs(a, b, i, borrow) ==
    IF i = 0 THEN <<>>
    ELSE LET t == a[i] - b[i] - borrow
         IN  IF t < 0 THEN Append(SubLimbs(a, b, i - 1, 1), t + LimbBase)
                      ELSE Append(SubLimbs(a, b, i - 1, 0), t)

SubB(a, b) ==
    LET n == LimbCount(a)
    IN  BitsOfLimbs(SubLimbs(LimbsOf(a, n), LimbsOf(b, n), n, 0))

LeqB(a, b) ==
    IF Len(a) # Len(b) THEN Len(a) < Len(b)
    ELSE \/ a = b
         \/ \E i \in 1..Len(a) :
                /\ a[i] < b[i]
                /\ \A j \in 1..(i - 1) : a[j] = b[j]

IncB(b) == AddB(b, <<1>>)

-----------------------------------------------------------------------------
(* IEEE-754 binary64 numbers of the normal range: neg, m, e stand for      *)
(* (-1)^neg * m * 2^e, kept canonical (m odd, or m = 0 with e = 0).        *)

MantissaBits == 53

FZero == [neg |-> FALSE, m |-> <<>>, e |-> 0]

Canon(neg, m, e) ==
    IF m = <<>> THEN FZero
    ELSE LET z == TrailingZeros(m)
         IN  [neg |-> neg, m |-> SubSeq(m, 1, Len(m) - z), e |-> e + z]

\* q * 2^e (plus a nonzero tail below q's last bit when sticky) rounded to
\* the nearest double, ties to even
RoundNearestEven(neg, q, sticky, e) ==
    IF Len(q) <= MantissaBits THEN Canon(neg, q, e)
    ELSE LET keep  == SubSeq(q, 1, MantissaBits)
             guard == q[MantissaBits + 1]
             rest  == AnyOne(SubSeq(q, MantissaBits + 2, Len(q))) \/ sticky
             up    == guard = 1 /\ (rest \/ keep[MantissaBits] = 1)
         IN  Canon(neg, IF up THEN IncB(keep) ELSE keep, e + Len(q) - MantissaBits)

Abs(n) == IF n < 0 THEN -n ELSE n

\* float(n) for an integer n below 2^53
FloatOfInt(n) == Canon(n < 0, BitsOf(Abs(n)), 0)

\* x / d for a double x and a small natural d: the quotient, correctly rounded
FloatDiv(x, d) ==
    IF x.m = <<>> THEN FZero
    ELSE LET s  == MantissaBits + 2 + Len(BitsOf(d))
             qr == DivSmall(Shl(x.m, s), d)
         IN  RoundNearestEven(x.neg, qr[1], qr[2] # 0, x.e - s)

\* the float literal with the decimal digits of n / d: the double nearest to it
Decimal(n, d) == FloatDiv(FloatOfInt(n), d)

\* x * c for a double x and a small natural c
FloatMul(x, c) == RoundNearestEven(x.neg, MulSmall(x.m, c), FALSE, x.e)

\* int(x): truncation toward zero
FloatTrunc(x) ==
    LET mag == IF x.e >= 0 THEN NatOf(Shl(x.m, x.e))
               ELSE IF -x.e >= Len(x.m) THEN 0
               ELSE NatOf(SubSeq(x.m, 1, Len(x.m) + x.e))
    IN  IF x.neg THEN -mag ELSE mag

\* round(x): the nearest integer, ties to the even one
FloatRound(x) ==
    LET t  == FloatTrunc(x)
        n  == Len(x.m)
        up == IF x.e >= 0 \/ -x.e > n THEN FALSE
              ELSE IF -x.e = n THEN x.m # <<1>>
              ELSE x.m[n + x.e + 1] = 1 /\ (-x.e > 1 \/ t % 2 = 1)
    IN  IF ~up THEN t ELSE IF x.neg THEN t - 1 ELSE t + 1

\* |x - y| as <<m, e>>, meaning m * 2^e
FloatAbsDiff(x, y) ==
    LET e  == IF x.e < y.e THEN x.e ELSE y.e
        a  == Shl(x.m, x.e - e)
        b  == Shl(y.m, y.e - e)
    IN  IF x.neg # y.neg THEN <<AddB(a, b), e>>
        ELSE IF LeqB(a, b) THEN <<SubB(b, a), e>>
        ELSE <<SubB(a, b), e>>

\* |x - y| <= 1 / den
FloatWithin(x, y, den) ==
    LET d == FloatAbsDiff(x, y)
        m == MulSmall(d[1], den)
    IN  IF m = <<>> THEN TRUE
        ELSE IF d[2] >= 0 THEN Shl(m, d[2]) = <<1>>
        ELSE LeqB(m, Shl(<<1>>, -d[2]))

-----------------------------------------------------------------------------
(* Python values: t is the type, and the field of that type holds the      *)
(* value (the other fields stay at their default).                         *)

PyInt(n)   == [t |-> "int",   i |-> n, f |-> FZero, s |-> ""]
PyFloat(x) == [t |-> "float", i |-> 0, f |-> x,     s |-> ""]
PyStr(str) == [t |-> "str",   i |-> 0, f |-> FZero, s |-> str]
PyNone     == [t |-> "None",  i |-> 0, f |-> FZero, s |-> ""]

\* the result of an expression: the exception it raised ("none" if it
\* returned) and the value it returned
Return(v)  == [exc |-> "none", val |-> v]
Raise(e)   == [exc |-> e, val |-> PyNone]

\* int(v); the strings of the model are not numerals
py_int(v) ==
    CASE v.t = "int"   -> Return(v)
      [] v.t = "float" -> Return(PyInt(FloatTrunc(v.f)))
      [] v.t = "str"   -> Raise("ValueError")
      [] OTHER         -> Raise("TypeError")

\* float(v)
py_float(v) ==
    CASE v.t = "int"   -> Return(PyFloat(FloatOfInt(v.i)))
      [] v.t = "float" -> Return(v)
      [] v.t = "str"   -> Raise("ValueError")
      [] OTHER         -> Raise("TypeError")

\* bool(v)
PyBool(b) == [t |-> "bool", i |-> IF b THEN 1 ELSE 0, f |-> FZero, s |-> ""]

py_bool(v) ==
    CASE v.t = "int"   -> PyBool(v.i # 0)
      [] v.t = "float" -> PyBool(v.f.m # <<>>)
      [] v.t = "str"   -> PyBool(v.s # "")
      [] OTHER         -> PyBool(FALSE)

\* v * 10; a str times 10 is the str repeated, which no int() accepts
py_times10(v) ==
    CASE v.t = "int"   -> Return(PyInt(v.i * 10))
      [] v.t = "float" -> Return(PyFloat(FloatMul(v.f, 10)))
      [] v.t = "str"   -> Return(v)
      [] OTHER         -> Raise("TypeError")

-----------------------------------------------------------------------------
(* SmartDeviceDataPoint: index, name, point_type, value, _listener.        *)

SmartDeviceDataPoint(index, name, point_type, value) ==
    [index |-> index, name |-> name, point_type |-> point_type,
     value |-> value, _listener |-> {}]

\* get_value() with the integer types decoded as tenths too
get_value_all_tenths(dp) ==
    IF dp.point_type \in {1, 2, 7}
    THEN LET x == py_float(dp.value)
         IN  IF x.exc # "none" THEN x ELSE Return(PyFloat(FloatDiv(x.val.f, 10)))
    ELSE Return(dp.value)

\* get_value(): the stored wire value, decoded by point_type
get_value(dp) ==
    CASE dp.point_type = 1 -> py_int(dp.value)
      [] dp.point_type = 2 ->
            LET x == py_float(dp.value)
            IN  IF x.exc # "none" THEN x ELSE Return(PyFloat(FloatDiv(x.val.f, 10)))
      [] dp.point_type = 7 -> py_int(dp.value)
      [] dp.point_type = 8 -> Return(dp.value)
      [] OTHER             -> Return(dp.value)

\* the match statement with int(value) * 10 for type 2
encode_whole_part(point_type, value) ==
    CASE point_type \in {1, 2, 7} ->
            LET x == py_int(value)
            IN  IF x.exc # "none" \/ point_type # 2 THEN x
                ELSE Return(PyInt(x.val.i * 10))
      [] OTHER -> Return(value)

\* the match statement of set_value: the wire value stored for value
encode(point_type, value) ==
    CASE point_type = 1 -> py_int(value)
      [] point_type = 2 ->
            LET x == py_times10(value)
            IN  IF x.exc # "none" THEN x ELSE py_int(x.val)
      [] point_type = 7 -> py_int(value)
      [] point_type = 8 -> Return(value)
      [] OTHER          -> Return(value)

-----------------------------------------------------------------------------
(* Data-point keys are the words between their underscores:                *)
(* "PARAM_ID_SYS_SOFT_VER" is <<"PARAM", "ID", "SYS", "SOFT", "VER">>.     *)

P(words) == <<"PARAM", "ID">> \o words

\* k.endswith("_" + the words of suffix joined by "_")
EndsWith(k, suffix) ==
    /\ Len(k) > Len(suffix)
    /\ SubSeq(k, Len(k) - Len(suffix) + 1, Len(k)) = suffix

\* k.endswith(the words of suffix joined by "_"), no underscore before it;
\* the keys of the model have no word that ends in the first word of suffix
\* other than that word itself
EndsWithBare(k, suffix) ==
    /\ Len(k) >= Len(suffix)
    /\ SubSeq(k, Len(k) - Len(suffix) + 1, Len(k)) = suffix

\* k.startswith(the words of prefix joined by "_" + "_")
StartsWith(k, prefix) ==
    /\ Len(k) > Len(prefix)
    /\ SubSeq(k, 1, Len(prefix)) = prefix

Has(seq, x) == \E i \in 1..Len(seq) : seq[i] = x

Without(seq, x) == SelectSeq(seq, LAMBDA y : y # x)

\* the state of one classification pass: data_points is the working map (its
\* keys, in dict order), out the descriptors appended so far, exc the
\* exception raised
Pass(data_points) == [data_points |-> data_points, out |-> <<>>, exc |-> "none"]

\* out.append(Descriptor(data_point=data_points.pop(k), ...))
Claim(st, k, descriptor) ==
    IF st.exc # "none" THEN st
    ELSE IF ~Has(st.data_points, k) THEN [st EXCEPT !.exc = "KeyError"]
    ELSE [st EXCEPT !.data_points = Without(@, k),
                    !.out = Append(@, descriptor)]

\* data_points.pop(k)
Pop(st, k) ==
    IF st.exc # "none" THEN st
    ELSE IF ~Has(st.data_points, k) THEN [st EXCEPT !.exc = "KeyError"]
    ELSE [st EXCEPT !.data_points = Without(@, k)]

\* display names: a fixed text, or d.name.title() of the point's words
Named(text)  == [text |-> text, title |-> <<>>, plain |-> <<>>]
Titled(name) == [text |-> "", title |-> name, plain |-> <<>>]

\* point.name as it is
Plain(name)  == [text |-> "", title |-> <<>>, plain |-> name]

\* p.get("pointName", "").replace("PARAM_ID_", ""), for names whose only
\* "PARAM_ID_" is a leading one
PointName(k) ==
    IF StartsWith(k, <<"PARAM", "ID">>) THEN SubSeq(k, 3, Len(k)) ELSE k

PARAM_ID_BOILER_CH_CUR_TEMP       == P(<<"BOILER", "CH", "CUR", "TEMP">>)
PARAM_ID_BOILER_CH_SET_RANGE_DOWN == P(<<"BOILER", "CH", "SET", "RANGE", "DOWN">>)
PARAM_ID_BOILER_CH_SET_RANGE_UP   == P(<<"BOILER", "CH", "SET", "RANGE", "UP">>)
PARAM_ID_BOILER_CH_MAX_SETPOINT   == P(<<"BOILER", "CH", "MAX", "SETPOINT">>)
PARAM_ID_BOILER_CH_TRG_TEMP       == P(<<"BOILER", "CH", "TRG", "TEMP">>)

ch_keys == <<PARAM_ID_BOILER_CH_CUR_TEMP, PARAM_ID_BOILER_CH_SET_RANGE_DOWN, PARAM_ID_BOILER_CH_SET_RANGE_UP,
             PARAM_ID_BOILER_CH_MAX_SETPOINT, PARAM_ID_BOILER_CH_TRG_TEMP>>

PARAM_ID_BOILER_DHW_CUR_TEMP       == P(<<"BOILER", "DHW", "CUR", "TEMP">>)
PARAM_ID_BOILER_DHW_SET_RANGE_DOWN == P(<<"BOILER", "DHW", "SET", "RANGE", "DOWN">>)
PARAM_ID_BOILER_DHW_SET_RANGE_UP   == P(<<"BOILER", "DHW", "SET", "RANGE", "UP">>)
PARAM_ID_BOILER_DHW_TRG_TEMP       == P(<<"BOILER", "DHW", "TRG", "TEMP">>)

dhw_keys == <<PARAM_ID_BOILER_DHW_CUR_TEMP, PARAM_ID_BOILER_DHW_SET_RANGE_DOWN,
              PARAM_ID_BOILER_DHW_SET_RANGE_UP, PARAM_ID_BOILER_DHW_TRG_TEMP>>

AllIn(keys, data_points) == \A i \in 1..Len(keys) : Has(data_points, keys[i])

WaterHeaterData(name, min_temp, max_temp, current_temp, target_temp) ==
    [name |-> name, min_temp |-> min_temp, max_temp |-> max_temp,
     current_temp |-> current_temp, target_temp |-> target_temp]

\* if all(k in data_points for k in keys): the descriptor is built after
\* its four pops, in argument order
ClaimWaterHeater(st, keys, name, down, up, cur, trg) ==
    IF st.exc # "none" \/ ~AllIn(keys, st.data_points) THEN st
    ELSE LET popped == Pop(Pop(Pop(Pop(st, down), up), cur), trg)
         IN  IF popped.exc # "none" THEN popped
             ELSE [popped EXCEPT !.out = Append(@, WaterHeaterData(name, down, up, cur, trg))]

\* the Heating rule alone
get_water_heaters_heating_only(data_points) ==
    ClaimWaterHeater(Pass(data_points), ch_keys, Named("Heating Water Heater"),
        PARAM_ID_BOILER_CH_SET_RANGE_DOWN, PARAM_ID_BOILER_CH_SET_RANGE_UP,
        PARAM_ID_BOILER_CH_CUR_TEMP, PARAM_ID_BOILER_CH_MAX_SETPOINT)

\* the Heating rule with PARAM_ID_BOILER_CH_TRG_TEMP as its target_temp
get_water_heaters_target_trg(data_points) ==
    ClaimWaterHeater(
        ClaimWaterHeater(Pass(data_points), ch_keys, Named("Heating Water Heater"),
            PARAM_ID_BOILER_CH_SET_RANGE_DOWN, PARAM_ID_BOILER_CH_SET_RANGE_UP,
            PARAM_ID_BOILER_CH_CUR_TEMP, PARAM_ID_BOILER_CH_TRG_TEMP),
        dhw_keys, Named("Sanitary Water Heater"),
        PARAM_ID_BOILER_DHW_SET_RANGE_DOWN, PARAM_ID_BOILER_DHW_SET_RANGE_UP,
        PARAM_ID_BOILER_DHW_CUR_TEMP, PARAM_ID_BOILER_DHW_TRG_TEMP)

\* the Heating rule, then the Sanitary rule on what it left
get_water_heaters(data_points) ==
    ClaimWaterHeater(
        ClaimWaterHeater(Pass(data_points), ch_keys, Named("Heating Water Heater"),
            PARAM_ID_BOILER_CH_SET_RANGE_DOWN, PARAM_ID_BOILER_CH_SET_RANGE_UP,
            PARAM_ID_BOILER_CH_CUR_TEMP, PARAM_ID_BOILER_CH_MAX_SETPOINT),
        dhw_keys, Named("Sanitary Water Heater"),
        PARAM_ID_BOILER_DHW_SET_RANGE_DOWN, PARAM_ID_BOILER_DHW_SET_RANGE_UP,
        PARAM_ID_BOILER_DHW_CUR_TEMP, PARAM_ID_BOILER_DHW_TRG_TEMP)

PARAM_ID_TH_CUR_ROOM_TEMP == P(<<"TH", "CUR", "ROOM", "TEMP">>)
PARAM_ID_TH_TRG_ROOM_TEMP == P(<<"TH", "TRG", "ROOM", "TEMP">>)
PARAM_ID_TH_WORK_MODE     == P(<<"TH", "WORK", "MODE">>)

thermostat_keys == <<PARAM_ID_TH_CUR_ROOM_TEMP, PARAM_ID_TH_TRG_ROOM_TEMP, PARAM_ID_TH_WORK_MODE>>

ClimateData(name, current_temp, target_temp, hvac_mode) ==
    [name |-> name, current_temp |-> current_temp, target_temp |-> target_temp,
     hvac_mode |-> hvac_mode]

\* the Thermostat rule reading its points with [] where the code pops them
get_climate_data_keeping(data_points) ==
    LET st0 == Pass(data_points)
    IN  IF AllIn(thermostat_keys, st0.data_points)
        THEN [st0 EXCEPT !.out = Append(@,
                 ClimateData(Named("Thermostat"), PARAM_ID_TH_CUR_ROOM_TEMP,
                             PARAM_ID_TH_TRG_ROOM_TEMP, PARAM_ID_TH_WORK_MODE))]
        ELSE st0

get_climate_data(data_points) ==
    LET st0 == Pass(data_points)
    IN  IF AllIn(thermostat_keys, st0.data_points)
        THEN LET popped == Pop(Pop(Pop(st0, PARAM_ID_TH_CUR_ROOM_TEMP), PARAM_ID_TH_TRG_ROOM_TEMP),
                               PARAM_ID_TH_WORK_MODE)
             IN  IF popped.exc # "none" THEN popped
                 ELSE [popped EXCEPT !.out = Append(@,
                          ClimateData(Named("Thermostat"), PARAM_ID_TH_CUR_ROOM_TEMP,
                                      PARAM_ID_TH_TRG_ROOM_TEMP, PARAM_ID_TH_WORK_MODE))]
        ELSE st0

\* SensorData, SwitchData, NumberData, SelectData: one data point and a name
PointData(k, name) == [data_point |-> k, name |-> name]

SYS_WORK_MODE == <<"SYS", "WORK", "MODE">>

\* if test: out.append(Descriptor(data_point=data_points.pop(k), ...))
ClaimIf(test, st, k, descriptor) ==
    IF st.exc = "none" /\ test THEN Claim(st, k, descriptor) ELSE st

\* if k in data_points: out.append(...(data_point=data_points.pop(k), name=text))
ClaimKey(st, k, text) == ClaimIf(Has(st.data_points, k), st, k, PointData(k, Named(text)))

\* the Work Mode rule on the key with the prefix of the other rules
get_select_data_prefixed(data_points) ==
    ClaimKey(Pass(data_points), P(SYS_WORK_MODE), "Work Mode")

get_select_data(data_points) == ClaimKey(Pass(data_points), SYS_WORK_MODE, "Work Mode")

PARAM_ID_BOILER_DHW_PRO_EN == P(<<"BOILER", "DHW", "PRO", "EN">>)
PARAM_ID_SYS_DST_ENABLE    == P(<<"SYS", "DST", "ENABLE">>)

get_switches_data(data_points) ==
    ClaimKey(ClaimKey(Pass(data_points), PARAM_ID_BOILER_DHW_PRO_EN,
                      "Domestic Water Heating Program"),
             PARAM_ID_SYS_DST_ENABLE, "Auto Time Sync")

PARAM_ID_TH_POWEROFF_FROZE_TEMP == P(<<"TH", "POWEROFF", "FROZE", "TEMP">>)

get_numbers_data(data_points) ==
    ClaimKey(Pass(data_points), PARAM_ID_TH_POWEROFF_FROZE_TEMP, "Poweroff Froze Temperature")

PARAM_ID_BOILER_OUTDOOR_TEMP    == P(<<"BOILER", "OUTDOOR", "TEMP">>)
PARAM_ID_BOILER_OT_SLAVE_STATUS == P(<<"BOILER", "OT", "SLAVE", "STATUS">>)
PARAM_ID_SYS_SOFT_VER           == P(<<"SYS", "SOFT", "VER">>)

\* the round opened by two ifs, where the code has if / elif
SensorTemp_two_ifs(st, k, name) ==
    ClaimIf(EndsWith(k, <<"TEMP">>),
        ClaimIf(k = PARAM_ID_BOILER_OUTDOOR_TEMP, st, k, PointData(k, Named("Outdoor Temperature"))),
        k, PointData(k, Titled(name)))

\* the if / elif that opens a round of the loop of get_sensors_data
SensorTemp(st, k, name) ==
    IF k = PARAM_ID_BOILER_OUTDOOR_TEMP
    THEN Claim(st, k, PointData(k, Named("Outdoor Temperature")))
    ELSE ClaimIf(EndsWith(k, <<"TEMP">>), st, k, PointData(k, Titled(name)))

\* one round of the loop of get_sensors_data over the key k, whose point's
\* name is name: the if / elif, then six more ifs (innermost first here),
\* each with its own pop
SensorRound(st, k, name) ==
    ClaimIf(k = PARAM_ID_SYS_SOFT_VER,
      ClaimIf(k = PARAM_ID_BOILER_OT_SLAVE_STATUS,
        ClaimIf(EndsWith(k, <<"FAULT", "CODE">>),
          ClaimIf(\/ EndsWithBare(k, <<"WIFI", "SIGNAL">>)
                  \/ EndsWithBare(k, <<"WIFI", "", "SIGNAL">>),
            ClaimIf(EndsWith(k, <<"PRESSURE">>),
              ClaimIf(EndsWith(k, <<"RATE">>),
                SensorTemp(st, k, name),
                k, PointData(k, Titled(name))),
              k, PointData(k, Titled(name))),
            k, PointData(k, Named("WiFi Signal"))),
          k, PointData(k, Titled(name))),
        k, PointData(k, Named("Status"))),
      k, PointData(k, Named("Software Version")))

\* for k, d in list(data_points.items()): the keys are those of the map when
\* the loop starts
RECURSIVE SensorLoop(_, _)
SensorLoop(st, keys) ==
    IF keys = <<>> \/ st.exc # "none" THEN st
    ELSE SensorLoop(SensorRound(st, Head(keys), PointName(Head(keys))), Tail(keys))

\* the loop runs over the keys that the Heating Target Temperature rule left
SensorPass(st) == SensorLoop(st, st.data_points)

\* the loop alone, without the Heating Target Temperature rule before it
get_sensors_data_suffix_only(data_points) == SensorPass(Pass(data_points))

get_sensors_data(data_points) ==
    SensorPass(ClaimKey(Pass(data_points), PARAM_ID_BOILER_CH_TRG_TEMP,
                        "Heating Target Temperature"))

PARAM_ID_BOILER_IS_ROOM_SENSOR_ENABL == P(<<"BOILER", "IS", "ROOM", "SENSOR", "ENABL">>)
PARAM_ID_BOILER_IS_OT_CONNECTED      == P(<<"BOILER", "IS", "OT", "CONNECTED">>)
PARAM_ID_BOILER_OTC_ENABLE           == P(<<"BOILER", "OTC", "ENABLE">>)

\* one round of the loop of get_binary_sensors_data: a single if / elif chain
BinarySensorRound(st, k, name) ==
    IF k = PARAM_ID_BOILER_IS_ROOM_SENSOR_ENABL
    THEN Claim(st, k, PointData(k, Named("External Temperature Sensor")))
    ELSE IF k = PARAM_ID_BOILER_IS_OT_CONNECTED
    THEN Claim(st, k, PointData(k, Named("Thermostat Connection")))
    ELSE IF k = PARAM_ID_BOILER_OTC_ENABLE
    THEN Claim(st, k, PointData(k, Named("Outdoor Temperature Compensation")))
    ELSE IF \/ EndsWith(k, <<"ENABLE">>)
            \/ EndsWith(k, <<"ENABL">>)
            \/ EndsWith(k, <<"CONNECTED">>)
    THEN Claim(st, k, PointData(k, Titled(name)))
    ELSE st

RECURSIVE BinarySensorLoop(_, _)
BinarySensorLoop(st, keys) ==
    IF keys = <<>> \/ st.exc # "none" THEN st
    ELSE BinarySensorLoop(BinarySensorRound(st, Head(keys), PointName(Head(keys))),
                          Tail(keys))

get_binary_sensors_data(data_points) ==
    BinarySensorLoop(Pass(data_points), data_points)

PARAM_ID_SYS_DEVICE_MODULE == P(<<"SYS", "DEVICE", "MODULE">>)
PARAM_ID_TH_DELETE_TH_ADDR == P(<<"TH", "DELETE", "TH", "ADDR">>)

Unsupported(k) ==
    \/ StartsWith(k, P(<<"BOILER", "DHW", "PRO">>))
    \/ StartsWith(k, P(<<"TH", "ROOM", "PROG", "DAY">>))

\* remove_unsupported_data with pop(k, None) for the two keys
remove_unsupported_data_lenient(data_points) ==
    [Pass(data_points) EXCEPT !.data_points =
        SelectSeq(@, LAMBDA k : /\ k # PARAM_ID_SYS_DEVICE_MODULE
                                /\ k # PARAM_ID_TH_DELETE_TH_ADDR
                                /\ ~Unsupported(k))]

\* remove_unsupported_data: two pops that need their key, then the keys of
\* the two prefixes
remove_unsupported_data(data_points) ==
    LET st == Pop(Pop(Pass(data_points), PARAM_ID_SYS_DEVICE_MODULE),
                  PARAM_ID_TH_DELETE_TH_ADDR)
    IN  IF st.exc # "none" THEN st
        ELSE [st EXCEPT !.data_points = SelectSeq(@, LAMBDA k : ~Unsupported(k))]

\* parse_data_points: the seven passes over a copy of the keys, in the order
\* of the code, each on what the one before left, then the pruning. A pass
\* that raises ends the parse, with the attributes assigned so far.
Groups == <<"water_heaters", "climate_data", "select_data", "switches_data",
            "numbers_data", "sensors_data", "binary_sensors_data">>

Parsed(keys) ==
    [unknown_points |-> keys, water_heaters |-> <<>>, climate_data |-> <<>>,
     select_data |-> <<>>, switches_data |-> <<>>, numbers_data |-> <<>>,
     sensors_data |-> <<>>, binary_sensors_data |-> <<>>, exc |-> "none"]

\* self.<group> = self.get_<group>(self.unknown_points)
Assign(p, group, st) ==
    IF st.exc # "none"
    THEN [p EXCEPT !.unknown_points = st.data_points, !.exc = st.exc]
    ELSE [p EXCEPT !.unknown_points = st.data_points, ![group] = st.out]

\* the seven assignments of parse_data_points, each on what the ones before
\* it left in unknown_points
set_water_heaters(p) ==
    IF p.exc # "none" THEN p
    ELSE Assign(p, "water_heaters", get_water_heaters(p.unknown_points))

set_climate_data(p) ==
    IF p.exc # "none" THEN p
    ELSE Assign(p, "climate_data", get_climate_data(p.unknown_points))

set_select_data(p) ==
    IF p.exc # "none" THEN p
    ELSE Assign(p, "select_data", get_select_data(p.unknown_points))

set_switches_data(p) ==
    IF p.exc # "none" THEN p
    ELSE Assign(p, "switches_data", get_switches_data(p.unknown_points))

set_numbers_data(p) ==
    IF p.exc # "none" THEN p
    ELSE Assign(p, "numbers_data", get_numbers_data(p.unknown_points))

set_sensors_data(p) ==
    IF p.exc # "none" THEN p
    ELSE Assign(p, "sensors_data", get_sensors_data(p.unknown_points))

set_binary_sensors_data(p) ==
    IF p.exc # "none" THEN p
    ELSE Assign(p, "binary_sensors_data", get_binary_sensors_data(p.unknown_points))

\* self.remove_unsupported_data()
Pruned(p, st) == [p EXCEPT !.unknown_points = st.data_points, !.exc = st.exc]

Prune(p) == IF p.exc # "none" THEN p ELSE Pruned(p, remove_unsupported_data(p.unknown_points))

parse_data_points(keys) ==
    Prune(set_binary_sensors_data(set_sensors_data(set_numbers_data(set_switches_data(
        set_select_data(set_climate_data(set_water_heaters(Parsed(keys)))))))))

-----------------------------------------------------------------------------
(* The handlers, as functions from the state before to the state after.    *)
(* A state w has the fields of TopbandCloudApi (devices, _mqtt,            *)
(* _mqtt_serial), what the MQTT client was given (subscribed, published),  *)
(* the listening entities (calls, cache), warned, the warnings logged, and *)
(* raised, the exception on its way out of the handler.                    *)

\* the state a handler starts in; the invocations counted are those of this
\* handler, or of the update_value that is in the middle of its loop
World ==
    [devices |-> devices, _mqtt |-> _mqtt, _mqtt_serial |-> _mqtt_serial,
     subscribed |-> subscribed, published |-> published,
     calls |-> IF updating.state = "iterating" THEN calls ELSE [c \in DOMAIN calls |-> 0],
     cache |-> cache, warned |-> 0, raised |-> "none"]

DataPointOf(w, mac, k) == w.devices[mac].data_points[k]

\* _listener.add(callback)
add_listener(w, mac, k, callback) ==
    [w EXCEPT !.devices[mac].data_points[k]._listener = @ \cup {callback}]

\* _listener.remove(callback), which needs the callback to be in the set
remove_listener_strict(w, mac, k, callback) ==
    IF callback \in DataPointOf(w, mac, k)._listener
    THEN [w EXCEPT !.devices[mac].data_points[k]._listener = @ \ {callback}]
    ELSE [w EXCEPT !.raised = "KeyError"]

\* _listener.discard(callback)
remove_listener(w, mac, k, callback) ==
    [w EXCEPT !.devices[mac].data_points[k]._listener = @ \ {callback}]

\* _handle_update of a sensor without options and of a number: it reads
\* get_value() of its point into its native value, then schedules its refresh
sensor_handle_update(w, callback, mac, k) ==
    LET r  == get_value(DataPointOf(w, mac, k))
        w1 == [w EXCEPT !.calls[callback] = @ + 1]
    IN  IF r.exc # "none" THEN [w1 EXCEPT !.raised = r.exc]
        ELSE [w1 EXCEPT !.cache[callback] = r.val]

\* self._attr_<field> = <r>, in a handler that may have raised before
Refresh(w, callback, field, r) ==
    IF w.raised # "none" THEN w
    ELSE IF r.exc # "none" THEN [w EXCEPT !.raised = r.exc]
    ELSE [w EXCEPT !.cache[callback][field] = r.val]

\* RadiantSmartSwitch._handle_update
switch_handle_update(w, callback, mac, data) ==
    LET r == get_value(DataPointOf(w, mac, data.data_point))
    IN  Refresh([w EXCEPT !.calls[callback] = @ + 1], callback, "is_on",
                IF r.exc # "none" THEN r ELSE Return(py_bool(r.val)))

\* a mode table with OFF at the wire value 2
hvac_modes_off_at_2 == <<<<0, "auto">>, <<1, "heat">>, <<2, "off">>>>

\* hvac_modes of the Thermostat descriptor, as its items
hvac_modes == <<<<0, "auto">>, <<1, "heat">>, <<4, "off">>>>

\* data.hvac_modes.get(<r>)
hvac_modes_get(r) ==
    IF r.exc # "none" THEN r
    ELSE IF r.val.t = "int" /\ \E i \in 1..Len(hvac_modes) : hvac_modes[i][1] = r.val.i
    THEN Return(PyStr(hvac_modes[CHOOSE i \in 1..Len(hvac_modes) : hvac_modes[i][1] = r.val.i][2]))
    ELSE Return(PyNone)

\* RadiantSmartThermostat._handle_update: three assignments in order
climate_handle_update(w, callback, mac, data) ==
    Refresh(
        Refresh(
            Refresh([w EXCEPT !.calls[callback] = @ + 1], callback, "current_temperature",
                    get_value(DataPointOf(w, mac, data.current_temp))),
            callback, "target_temperature", get_value(DataPointOf(w, mac, data.target_temp))),
        callback, "hvac_mode", hvac_modes_get(get_value(DataPointOf(w, mac, data.hvac_mode))))

\* RadiantSmartWaterHeater._handle_update
water_heater_handle_update(w, callback, mac, data) ==
    Refresh(
        Refresh([w EXCEPT !.calls[callback] = @ + 1], callback, "current_temperature",
                get_value(DataPointOf(w, mac, data.current_temp))),
        callback, "target_temperature", get_value(DataPointOf(w, mac, data.target_temp)))

\* the descriptors of a group whose entity listens on the point k
Listening(group, k) ==
    SelectSeq(group, LAMBDA d :
        \/ "data_point" \in DOMAIN d /\ d.data_point = k
        \/ "current_temp" \in DOMAIN d /\ k \in {d.current_temp, d.target_temp}
        \/ "hvac_mode" \in DOMAIN d /\ d.hvac_mode = k)

\* the callback that the entity of the point k registered: each platform
\* makes an entity per descriptor of its group, and an entity registers its
\* own _handle_update on the points it reads; the points of no thermostat,
\* water heater or switch have a sensor or a number
handle_update(w, callback, mac, k) ==
    IF Listening(w.devices[mac].climate_data, k) # <<>>
    THEN climate_handle_update(w, callback, mac, Listening(w.devices[mac].climate_data, k)[1])
    ELSE IF Listening(w.devices[mac].water_heaters, k) # <<>>
    THEN water_heater_handle_update(w, callback, mac,
                                    Listening(w.devices[mac].water_heaters, k)[1])
    ELSE IF Listening(w.devices[mac].switches_data, k) # <<>>
    THEN switch_handle_update(w, callback, mac, Listening(w.devices[mac].switches_data, k)[1])
    ELSE sensor_handle_update(w, callback, mac, k)

\* for c in self._listener: c()  -- order is the order the set iterates in
RECURSIVE Notify(_, _, _, _)
Notify(w, mac, k, order) ==
    IF order = <<>> \/ w.raised # "none" THEN w
    ELSE Notify(handle_update(w, Head(order), mac, k), mac, k, Tail(order))

\* update_value that runs the listeners before it stores the value
update_value_listeners_first(w, mac, k, data, iteration) ==
    LET w1 == Notify(w, mac, k,
                     SelectSeq(iteration, LAMBDA c : c \in DataPointOf(w, mac, k)._listener))
    IN  [w1 EXCEPT !.devices[mac].data_points[k].value = data]

\* update_value(data); iteration lists all callbacks, the set's iteration
\* order being that of its members in it
update_value(w, mac, k, data, iteration) ==
    LET w1 == [w EXCEPT !.devices[mac].data_points[k].value = data]
        dp == DataPointOf(w1, mac, k)
    IN  Notify(w1, mac, k, SelectSeq(iteration, LAMBDA c : c \in dp._listener))

\* _mqtt.publish(topic, payload)
publish_mqtt_message(w, topic, payload) ==
    [w EXCEPT !.published = Append(@, [topic |-> topic, payload |-> payload])]

\* the topic of the commands for a device
Topic(device) == <<device.gateway.product_id, device.gateway.uid, "download/point/data">>

\* the payload of a command, serial being self._mqtt_serial as the dict
\* literal reads it; the timestamp is the wall clock's and is left out
Payload(device, serial, command) ==
    [common |-> [productId |-> device.gateway.product_id,
                 serial |-> serial,
                 uid |-> device.gateway.uid],
     data |-> <<[cmd |-> 99, command |-> <<command>>, mac |-> device.mac_address]>>,
     method |-> "command"]

\* self._mqtt_serial += 1
Increment(w) == [w EXCEPT !._mqtt_serial = @ + 1]

\* the rest of send_mqtt_command with the serial that the counter had before
\* the increment
Send_serial_before_increment(w, device, command) ==
    publish_mqtt_message(w, Topic(device), Payload(device, w._mqtt_serial - 1, command))

\* the rest of send_mqtt_command, after the increment
Send(w, device, command) ==
    publish_mqtt_message(w, Topic(device), Payload(device, w._mqtt_serial, command))

\* send_mqtt_command with the increment ahead of the test of self._mqtt
send_mqtt_command_counting(w, mac, command) ==
    IF w._mqtt = "None" THEN Increment(w) ELSE Send(Increment(w), w.devices[mac], command)

send_mqtt_command(w, mac, command) ==
    IF w._mqtt = "None" THEN w ELSE Send(Increment(w), w.devices[mac], command)

\* cmd = {"i": dp.index, "t": dp.point_type, "len": 0, "v": dp.value}
Command(dp) == [i |-> dp.index, t |-> dp.point_type, len |-> 0, v |-> dp.value]

send_data_point_update(w, mac, k) ==
    send_mqtt_command(w, mac, Command(DataPointOf(w, mac, k)))

\* set_value that runs the listeners as update_value does
set_value_notifying(w, mac, k, value) ==
    LET enc == encode(DataPointOf(w, mac, k).point_type, value)
    IN  IF enc.exc # "none" THEN [w EXCEPT !.raised = enc.exc]
        ELSE send_data_point_update(
                 update_value(w, mac, k, enc.val, [i \in 1..Cardinality(DOMAIN w.calls) |-> i]),
                 mac, k)

set_value(w, mac, k, value) ==
    LET enc == encode(DataPointOf(w, mac, k).point_type, value)
    IN  IF enc.exc # "none" THEN [w EXCEPT !.raised = enc.exc]
        ELSE send_data_point_update(
                 [w EXCEPT !.devices[mac].data_points[k].value = enc.val], mac, k)

\* handle_mqtt_command(data): data is the command object, as its (key, v)
\* pairs in order, v being cmd.get("v")
RECURSIVE handle_mqtt_command(_, _, _, _)
handle_mqtt_command(w, mac, data, iteration) ==
    IF data = <<>> \/ w.raised # "none" THEN w
    ELSE LET k   == Head(data)[1]
             v   == Head(data)[2]
             w1  == IF k \in DOMAIN w.devices[mac].data_points
                    THEN update_value(w, mac, k, v, iteration)
                    ELSE w
         IN  handle_mqtt_command(w1, mac, Tail(data), iteration)

\* the loop of on_mqtt_message over data.get("data", []); an entry d has
\* cmd (0 when it has none), mac ("" when it has none) and command
RECURSIVE MessageLoop(_, _, _)
MessageLoop(w, data, iteration) ==
    IF data = <<>> \/ w.raised # "none" THEN w
    ELSE LET d  == Head(data)
             w1 == IF d.cmd = 98
                   THEN IF d.mac \in DOMAIN w.devices
                        THEN handle_mqtt_command(w, d.mac, d.command, iteration)
                        ELSE [w EXCEPT !.raised = "AttributeError"]
                   ELSE [w EXCEPT !.warned = @ + 1]
         IN  MessageLoop(w1, Tail(data), iteration)

\* on_mqtt_message: the else branch logs d, a local that only the loop of
\* the other branch assigns
on_mqtt_message(w, msg, iteration) ==
    IF msg.method = "command" THEN MessageLoop(w, msg.data, iteration)
    ELSE [w EXCEPT !.raised = "UnboundLocalError"]

\* mqtt_connect
mqtt_connect(w) == [w EXCEPT !._mqtt = "client"]

\* mqtt_subscribe(topic)
mqtt_subscribe(w, topic) ==
    IF w._mqtt = "None" THEN w ELSE [w EXCEPT !.subscribed = @ \cup {topic}]

\* SmartDevice(...) for one row of the device list, and its entry into
\* self.devices; a row's pointDataMap is a sequence of points with their key
KeysOf(row) == [i \in 1..Len(row.pointDataMap) |-> row.pointDataMap[i].key]

PointAt(row, k) ==
    LET p == CHOOSE p \in {row.pointDataMap[i] : i \in 1..Len(row.pointDataMap)} : p.key = k
    IN  SmartDeviceDataPoint(p.pointIndex, PointName(p.pointName), p.pointType, p.value)

\* a device whose classification worked on data_points itself, not on a copy
Device_classified_in_place(row, keys, parsed) ==
    [mac_address |-> row.extAddr,
     product_id |-> row.productId,
     gateway |-> [uid |-> row.gateway.uid, product_id |-> row.gateway.productId],
     keys |-> keys,
     data_points |-> [k \in {parsed.unknown_points[i] : i \in 1..Len(parsed.unknown_points)}
                         |-> PointAt(row, k)],
     unknown_points |-> parsed.unknown_points,
     water_heaters |-> parsed.water_heaters,
     climate_data |-> parsed.climate_data,
     select_data |-> parsed.select_data,
     switches_data |-> parsed.switches_data,
     numbers_data |-> parsed.numbers_data,
     sensors_data |-> parsed.sensors_data,
     binary_sensors_data |-> parsed.binary_sensors_data]

\* the attributes of a constructed device
Device(row, keys, parsed) ==
    [mac_address |-> row.extAddr,
     product_id |-> row.productId,
     gateway |-> [uid |-> row.gateway.uid, product_id |-> row.gateway.productId],
     keys |-> keys,
     data_points |-> [k \in {keys[i] : i \in 1..Len(keys)} |-> PointAt(row, k)],
     unknown_points |-> parsed.unknown_points,
     water_heaters |-> parsed.water_heaters,
     climate_data |-> parsed.climate_data,
     select_data |-> parsed.select_data,
     switches_data |-> parsed.switches_data,
     numbers_data |-> parsed.numbers_data,
     sensors_data |-> parsed.sensors_data,
     binary_sensors_data |-> parsed.binary_sensors_data]

\* self.devices[device.mac_address] = device
Register(w, device) ==
    [w EXCEPT !.devices = [m \in (DOMAIN @) \cup {device.mac_address} |->
                              IF m = device.mac_address THEN device ELSE @[m]]]

\* the two subscriptions that end the constructor
Subscribe(w, row) ==
    mqtt_subscribe(mqtt_subscribe(w, <<row.productId, row.gateway.uid, "business">>),
                   <<row.gateway.productId, row.gateway.uid, "upload/point/data">>)

Construct(w, row, parsed) ==
    IF parsed.exc # "none" THEN [w EXCEPT !.raised = parsed.exc]
    ELSE Register(Subscribe(w, row), Device(row, KeysOf(row), parsed))

SmartDevice(w, row) == Construct(w, row, parse_data_points(KeysOf(row)))

RECURSIVE DeviceLoop(_, _)
DeviceLoop(w, data) ==
    IF data = <<>> \/ w.raised # "none" THEN w
    ELSE DeviceLoop(SmartDevice(w, Head(data)), Tail(data))

\* async_get_devices: self.devices = {}, then one SmartDevice per row
async_get_devices(w, data) ==
    DeviceLoop([w EXCEPT !.devices = [m \in {} |-> {}]], data)

-----------------------------------------------------------------------------
(* Bounds and inputs.                                                      *)

MaxListeners == 3       \* callbacks that entities register
MaxTenths    == 20      \* set_value arguments k / 10, |k| <= MaxTenths
MaxHundredths == 60     \* set_value arguments k / 100, |k| <= MaxHundredths
MaxPublished == 2       \* outbound commands per run
MaxSenders   == 2       \* executor threads that send at the same time

Callbacks == 1..MaxListeners

\* the orders a set of callbacks can iterate in
Iterations ==
    {s \in [1..MaxListeners -> Callbacks] : \A i, j \in 1..MaxListeners : s[i] = s[j] => i = j}

MAC == "AA:BB"
FOO == <<"FOO">>

Point(k, index, point_type, value) ==
    [key |-> k, pointIndex |-> index, pointName |-> k, pointType |-> point_type,
     value |-> value]

Row(mac, uid, points) ==
    [extAddr |-> mac, productId |-> "radiant", gateway |-> [uid |-> uid, productId |-> "gw"],
     pointDataMap |-> points]

\* a device with one point FOO of the given type beside the two points every
\* device has
PointRow(point_type) ==
    Row(MAC, "u1", <<Point(FOO, 1, point_type, PyInt(0)),
                     Point(PARAM_ID_SYS_DEVICE_MODULE, 2, 1, PyInt(0)),
                     Point(PARAM_ID_TH_DELETE_TH_ADDR, 3, 1, PyInt(0))>>)

PointTypes == {1, 2, 7, 8, 3}

\* a device with the given points beside the two points every device has
DeviceRow(mac, points) ==
    Row(mac, "u1", points \o <<Point(PARAM_ID_SYS_DEVICE_MODULE, 8, 1, PyInt(0)),
                               Point(PARAM_ID_TH_DELETE_TH_ADDR, 9, 1, PyInt(0))>>)

\* numbers with at most one decimal digit, as floats and (the whole ones) as ints
TenthInputs == {PyFloat(Decimal(k, 10)) : k \in (-MaxTenths)..MaxTenths}
IntInputs   == {PyInt(k \div 10) : k \in {j \in (-MaxTenths)..MaxTenths : j % 10 = 0}}
HundredthInputs == {PyFloat(Decimal(k, 100)) : k \in (-MaxHundredths)..MaxHundredths}
Inputs      == TenthInputs \cup IntInputs \cup HundredthInputs

NoMessage == [method |-> "", data |-> <<>>, state |-> "none"]

\* the threads of the executor that run the entities' mutators
Senders == 1..MaxSenders

\* a thread that is not inside send_mqtt_command
NotSending ==
    [pc |-> "idle", mac |-> "", key |-> <<>>, value |-> PyNone,
     command |-> [i |-> 0, t |-> 0, len |-> 0, v |-> PyNone], serial |-> 0]

\* the MQTT thread is not inside update_value
NotUpdating ==
    [state |-> "idle", mac |-> "", key |-> <<>>, order |-> <<>>, pos |-> 0, used |-> 0,
     stayed |-> {}]

Last(op, mac, k, cb, v, written) ==
    [op |-> op, mac |-> mac, key |-> k, cb |-> cb, v |-> v, written |-> written,
     pre |-> [devices |-> devices, published |-> published,
              _mqtt |-> _mqtt, _mqtt_serial |-> _mqtt_serial]]

\* the state after TopbandCloudApi.__init__
Blank ==
    /\ devices = <<>>
    /\ _mqtt = "None"
    /\ _mqtt_serial = 0
    /\ subscribed = {}
    /\ published = <<>>
    /\ inbox = NoMessage
    /\ calls = [c \in Callbacks |-> 0]
    /\ cache = [c \in Callbacks |-> PyNone]
    /\ warned = 0
    /\ raised = "none"
    /\ ret = PyNone
    /\ sending = [t \in Senders |-> NotSending]
    /\ updating = NotUpdating
    /\ last = [op |-> "init", mac |-> "", key |-> <<>>, cb |-> 0, v |-> PyNone,
               written |-> FALSE,
               pre |-> [devices |-> <<>>, published |-> <<>>,
                        _mqtt |-> "None", _mqtt_serial |-> 0]]

\* the handler ran from the current state to w
Commit(w) ==
    /\ devices' = w.devices
    /\ _mqtt' = w._mqtt
    /\ _mqtt_serial' = w._mqtt_serial
    /\ subscribed' = w.subscribed
    /\ published' = w.published
    /\ calls' = w.calls
    /\ cache' = w.cache
    /\ warned' = w.warned
    /\ raised' = w.raised

-----------------------------------------------------------------------------
(* Actions.                                                                *)

MqttConnect ==
    /\ _mqtt = "None"
    /\ Commit(mqtt_connect(World))
    /\ last' = Last("mqtt_connect", "", <<>>, 0, PyNone, last.written)
    /\ UNCHANGED <<rows, inbox, ret, arg, sending, updating>>

AsyncGetDevices ==
    /\ last.op \in {"init", "mqtt_connect"}
    /\ Commit(async_get_devices(World, rows))
    /\ last' = Last("async_get_devices", "", <<>>, 0, PyNone, FALSE)
    /\ UNCHANGED <<rows, inbox, ret, arg, sending, updating>>

AddListener(mac, k, cb) ==
    /\ mac \in DOMAIN devices
    /\ k \in DOMAIN devices[mac].data_points
    /\ Commit(add_listener(World, mac, k, cb))
    /\ last' = Last("add_listener", mac, k, cb, PyNone, last.written)
    /\ updating' = IF updating.state = "iterating" THEN updating ELSE NotUpdating
    /\ UNCHANGED <<rows, inbox, ret, arg, sending>>

RemoveListener(mac, k, cb) ==
    /\ mac \in DOMAIN devices
    /\ k \in DOMAIN devices[mac].data_points
    /\ Commit(remove_listener(World, mac, k, cb))
    /\ last' = Last("remove_listener", mac, k, cb, PyNone, last.written)
    /\ updating' = IF updating.state = "iterating"
                   THEN [updating EXCEPT !.stayed = @ \ {cb}]
                   ELSE NotUpdating
    /\ UNCHANGED <<rows, inbox, ret, arg, sending>>

UpdateValue(mac, k, data, iteration) ==
    /\ mac \in DOMAIN devices
    /\ k \in DOMAIN devices[mac].data_points
    /\ Commit(update_value(World, mac, k, data, iteration))
    /\ last' = Last("update_value", mac, k, 0, data, FALSE)
    /\ UNCHANGED <<rows, inbox, ret, arg, sending, updating>>

SetValue(mac, k) ==
    /\ mac \in DOMAIN devices
    /\ k \in DOMAIN devices[mac].data_points
    /\ Len(published) < MaxPublished
    /\ LET w == set_value(World, mac, k, arg)
       IN  /\ Commit(w)
           /\ last' = Last("set_value", mac, k, 0, arg, w.raised = "none")
    /\ UNCHANGED <<rows, inbox, ret, arg, sending, updating>>

\* the broker has a message with this method for a topic the client
\* subscribed to
Arrive(method) ==
    /\ subscribed # {}
    /\ inbox.state # "in flight"
    /\ inbox' = [method |-> method, data |-> <<>>, state |-> "in flight"]
    /\ Commit(World)
    /\ last' = Last("arrive", "", <<>>, 0, PyNone, last.written)
    /\ UNCHANGED <<rows, ret, arg, sending, updating>>

\* the message in flight has one more entry in its data
AppendEntry(d) ==
    /\ inbox.state = "in flight"
    /\ inbox' = [inbox EXCEPT !.data = Append(@, d)]
    /\ UNCHANGED <<rows, devices, _mqtt, _mqtt_serial, subscribed, published,
                   calls, cache, warned, raised, ret, last, arg, sending, updating>>

\* the MQTT client calls on_message with the message in flight
OnMqttMessage(iteration) ==
    /\ inbox.state = "in flight"
    /\ Commit(on_mqtt_message(World, inbox, iteration))
    /\ inbox' = [inbox EXCEPT !.state = "delivered"]
    /\ last' = Last("on_mqtt_message", "", <<>>, 0, PyNone, FALSE)
    /\ UNCHANGED <<rows, ret, arg, sending, updating>>

GetValue(mac, k) ==
    /\ mac \in DOMAIN devices
    /\ k \in DOMAIN devices[mac].data_points
    /\ LET r == get_value(devices[mac].data_points[k])
       IN  /\ Commit([World EXCEPT !.raised = r.exc])
           /\ ret' = r.val
    /\ last' = Last("get_value", mac, k, 0, PyNone, last.written)
    /\ UNCHANGED <<rows, inbox, arg, sending, updating>>

-----------------------------------------------------------------------------
(* The codec: one data point of each type, set and read back.              *)

InitCodec ==
    /\ Blank
    /\ rows \in {<<PointRow(t)>> : t \in PointTypes}
    /\ arg \in Inputs

NextCodec ==
    \/ MqttConnect
    \/ AsyncGetDevices
    \/ SetValue(MAC, FOO)
    \/ GetValue(MAC, FOO)

SpecCodec == InitCodec /\ [][NextCodec]_vars

\* the data point the codec runs are about
FooPoint == devices[MAC].data_points[FOO]

\* get_value() ran on a point that set_value(arg) wrote last
ReadBack == last.op = "get_value" /\ last.written

\* C8: on a point of type 2, set_value(x) followed by get_value() returns a
\* value within 0.1 of x, for every x = k / 10 (k an integer of either sign)
RoundTripWithinTenth ==
    (ReadBack /\ FooPoint.point_type = 2 /\ arg \in TenthInputs \cup IntInputs)
        => /\ raised = "none"
           /\ ret.t = "float"
           /\ FloatWithin(ret.f, py_float(arg).val.f, 10)

\* C8 witness: set_value(-0.7) then get_value() on a type 2 point gave -0.7
RoundTripWithinTenthWitness ==
    /\ ReadBack
    /\ FooPoint.point_type = 2
    /\ arg = PyFloat(Decimal(-7, 10))
    /\ FooPoint.value = PyInt(-7)
    /\ ret = arg

\* C9: on a point of type 1 or 7, set_value(x) followed by get_value()
\* returns int(x); on a point of any other type but 2 it returns x itself
IntegerAndOpaqueRoundTrip ==
    ReadBack =>
        /\ FooPoint.point_type \in {1, 7} =>
               /\ raised = "none"
               /\ ret = IF arg.t = "int" THEN arg ELSE PyInt(FloatTrunc(arg.f))
        /\ FooPoint.point_type \notin {1, 2, 7} =>
               /\ raised = "none"
               /\ ret = arg

\* C9 witness: set_value(-1.5) then get_value() on a type 7 point gave -1
IntegerAndOpaqueRoundTripWitness ==
    /\ ReadBack
    /\ FooPoint.point_type = 7
    /\ arg = PyFloat(Decimal(-15, 10))
    /\ ret = PyInt(-1)

\* the wire encoding of the specification's codec table: int(value) for the
\* types 1 and 7, round(value * 10) for type 2, value itself otherwise
TableEncoding(point_type, value) ==
    CASE point_type \in {1, 7} -> py_int(value).val
      [] point_type = 2 ->
            IF value.t = "int" THEN PyInt(value.i * 10)
            ELSE PyInt(FloatRound(FloatMul(value.f, 10)))
      [] OTHER -> value

\* C10: with the transport initialised, set_value(v) stores the wire
\* encoding of v and publishes exactly once; get_value() publishes nothing,
\* leaves the stored values alone and invokes no listener
SetValueStoresAndPublishesOnce ==
    /\ (last.op = "set_value" /\ last.pre._mqtt = "client") =>
           /\ raised = "none"
           /\ FooPoint.value = TableEncoding(FooPoint.point_type, last.v)
           /\ Len(published) = Len(last.pre.published) + 1
    /\ last.op = "get_value" =>
           /\ devices = last.pre.devices
           /\ published = last.pre.published
           /\ \A c \in Callbacks : calls[c] = 0

\* C17: on a point of type 2, set_value(v) stores round(v * 10), the nearest
\* integer, for every v of the inputs (one and two decimal digits, of
\* either sign)
Type2EncodesByRounding ==
    (last.op = "set_value" /\ last.written /\ FooPoint.point_type = 2)
        => FooPoint.value
               = IF last.v.t = "int" THEN PyInt(last.v.i * 10)
                 ELSE PyInt(FloatRound(FloatMul(last.v.f, 10)))

\* C18: with the transport connected, set_value publishes one message: on
\* the topic of the gateway's productId and uid, with method "command", the
\* counter's value after the increment as serial, and one entry with cmd 99,
\* the device's mac and the one command object {i, t, len: 0, v} of the
\* point's index, pointType and stored wire value
OutboundCommandEnvelope ==
    (last.op = "set_value" /\ last.written /\ last.pre._mqtt = "client") =>
        /\ _mqtt_serial = last.pre._mqtt_serial + 1
        /\ published =
               Append(last.pre.published,
                      [topic |-> <<rows[1].gateway.productId, rows[1].gateway.uid,
                                   "download/point/data">>,
                       payload |->
                           [common |-> [productId |-> rows[1].gateway.productId,
                                        serial |-> _mqtt_serial,
                                        uid |-> rows[1].gateway.uid],
                            data |-> <<[cmd |-> 99,
                                        command |-> <<[i |-> rows[1].pointDataMap[1].pointIndex,
                                                       t |-> rows[1].pointDataMap[1].pointType,
                                                       len |-> 0,
                                                       v |-> FooPoint.value]>>,
                                        mac |-> rows[1].extAddr]>>,
                            method |-> "command"]])

\* C18 witness: the second command of a session, set_value(-0.7) on a point
\* of type 2, carries serial 2 and the wire value -7
OutboundCommandEnvelopeWitness ==
    /\ last.op = "set_value"
    /\ last.written
    /\ last.pre._mqtt = "client"
    /\ FooPoint.point_type = 2
    /\ last.v = PyFloat(Decimal(-7, 10))
    /\ Len(published) = 2
    /\ published[2].payload.common.serial = 2
    /\ published[2].payload.data[1].command[1].v = PyInt(-7)
    /\ published[2].payload.data[1].mac = MAC

\* this step is a call of set_value that returned
SetValueStep == last' # last /\ last'.op = "set_value" /\ raised' = "none"

\* C22: a step publishes only if it is a set_value call made while the
\* transport client is there, and then one command, that call's, with the
\* value the call stored; a set_value call made while the client is None
\* leaves published and the serial as they are, and so does every step that
\* is not a set_value call, mqtt_connect among them: nothing is sent later
\* for a call that found no client
OneShotNoQueuing ==
    [][/\ (SetValueStep /\ _mqtt = "client")
              => /\ published' = Append(published, published'[Len(published')])
                 /\ published'[Len(published')].payload.data[1].command[1].v
                        = devices'[last'.mac].data_points[last'.key].value
                 /\ _mqtt_serial' = _mqtt_serial + 1
       /\ ~(SetValueStep /\ _mqtt = "client")
              => /\ published' = published
                 /\ _mqtt_serial' = _mqtt_serial]_vars

\* C22 witness: set_value ran while the client was None, the client was
\* made afterwards, and nothing is published and the serial is still 0
OneShotNoQueuingWitness ==
    /\ last.op = "mqtt_connect"
    /\ last.written
    /\ MAC \in DOMAIN devices
    /\ FooPoint.value # PyInt(0)
    /\ _mqtt = "client"
    /\ published = <<>>
    /\ _mqtt_serial = 0

-----------------------------------------------------------------------------
(* The listener registry: entities come and go on one data point while the *)
(* router updates it. A point of type 1 makes get_value(), and with it the *)
(* entity's _handle_update, raise on a value that int() does not accept.   *)

\* values an inbound command can carry: cmd.get("v") is None without a "v"
UpdateInputs == {PyInt(7), PyNone}

InitListener ==
    /\ Blank
    /\ rows \in {<<PointRow(t)>> : t \in {1, 8}}
    /\ arg = PyNone

NextListener ==
    \/ AsyncGetDevices
    \/ \E cb \in Callbacks : AddListener(MAC, FOO, cb)
    \/ \E cb \in Callbacks : RemoveListener(MAC, FOO, cb)
    \/ \E v \in UpdateInputs, iteration \in Iterations : UpdateValue(MAC, FOO, v, iteration)

SpecListener == InitListener /\ [][NextListener]_vars

\* the listeners of the point before the last handler ran
ListenersBefore == last.pre.devices[MAC].data_points[FOO]._listener

\* C2: one update_value invokes every registered listener exactly once, and
\* no listener that is not (or no longer) registered
UpdateInvokesEachListenerOnce ==
    last.op = "update_value" =>
        \A c \in Callbacks : calls[c] = IF c \in FooPoint._listener THEN 1 ELSE 0

\* C3: add_listener of a registered callback and remove_listener of an
\* unregistered one change nothing and raise nothing; a callback is invoked
\* at most once per update and is unregistered by one remove_listener
AddRemoveIdempotent ==
    /\ last.op = "add_listener" =>
           /\ raised = "none"
           /\ FooPoint._listener = ListenersBefore \cup {last.cb}
           /\ last.cb \in ListenersBefore => devices = last.pre.devices
    /\ last.op = "remove_listener" =>
           /\ raised = "none"
           /\ FooPoint._listener = ListenersBefore \ {last.cb}
           /\ last.cb \notin ListenersBefore => devices = last.pre.devices
    /\ last.op = "update_value" => \A c \in Callbacks : calls[c] <= 1

\* C3 witness: remove_listener of a callback that was not registered, beside
\* one that was
AddRemoveIdempotentWitness ==
    /\ last.op = "remove_listener"
    /\ last.cb \notin ListenersBefore
    /\ ListenersBefore # {}
    /\ devices = last.pre.devices
    /\ raised = "none"

\* C4: when a listener raises during update_value, every registered listener
\* is still invoked exactly once for that update
RaisingListenerIsolated ==
    (last.op = "update_value" /\ raised # "none") =>
        \A c \in FooPoint._listener : calls[c] = 1

-----------------------------------------------------------------------------
(* The inbound router: two devices behind one gateway, and messages of at  *)
(* most MaxEntries entries. A command object is its (key, v) pairs in      *)
(* order; an entry without mac has mac "".                                 *)

MaxEntries == 2

BAR == <<"BAR">>

\* a key that names no DataPoint of any device
NOPE == <<"NOPE">>

MAC2        == "CC:DD"
UnknownMac  == "EE:FF"

RouterRows ==
    <<DeviceRow(MAC, <<Point(FOO, 1, 1, PyInt(0)), Point(BAR, 2, 2, PyInt(200))>>),
      DeviceRow(MAC2, <<Point(FOO, 1, 8, PyInt(0))>>)>>

Entry(cmd, mac, command) == [cmd |-> cmd, mac |-> mac, command |-> command]

Entries ==
    {Entry(98, MAC, <<<<FOO, PyInt(42)>>, <<BAR, PyInt(215)>>>>),
     Entry(98, MAC, <<<<FOO, PyNone>>, <<BAR, PyInt(215)>>>>),
     Entry(98, MAC2, <<<<FOO, PyInt(42)>>>>),
     Entry(98, UnknownMac, <<<<FOO, PyInt(42)>>>>),
     Entry(98, "", <<<<FOO, PyInt(42)>>>>),
     Entry(99, MAC, <<<<FOO, PyInt(7)>>>>),
     Entry(0, MAC, <<<<FOO, PyInt(7)>>>>),
     Entry(98, MAC, <<<<FOO, PyInt(42)>>, <<NOPE, PyInt(1)>>, <<BAR, PyInt(215)>>>>),
     Entry(98, MAC, <<<<FOO, PyNone>>, <<NOPE, PyInt(1)>>, <<BAR, PyInt(215)>>>>)}

Methods == {"command", "report", ""}

\* a point has at most one listener here, so that the order a listener set
\* iterates in is of no effect
Registration == [i \in 1..MaxListeners |-> i]

Init ==
    /\ Blank
    /\ rows = RouterRows
    /\ arg = PyNone

Next ==
    \/ MqttConnect
    \/ AsyncGetDevices
    \/ AddListener(MAC, FOO, 1)
    \/ \E method \in Methods : Arrive(method)
    \/ \E d \in Entries : Len(inbox.data) < MaxEntries /\ AppendEntry(d)
    \/ OnMqttMessage(Registration)

Spec == Init /\ [][Next]_vars

Delivered == last.op = "on_mqtt_message"

\* the value of type point_type that the wire value v stands for
Decoded(point_type, v) ==
    CASE point_type \in {1, 7} -> v
      [] point_type = 2      -> PyFloat(Decimal(v.i, 10))
      [] OTHER               -> v

\* no pair of the message after pair j of entry i writes the same point
LastWrite(i, j) ==
    LET d == inbox.data[i]
    IN  \A i2 \in i..Len(inbox.data) :
            \A j2 \in 1..Len(inbox.data[i2].command) :
                (/\ i2 > i \/ j2 > j
                 /\ inbox.data[i2].cmd = 98
                 /\ inbox.data[i2].mac = d.mac)
                    => inbox.data[i2].command[j2][1] # d.command[j][1]

\* C5: after a command message, every key of a cmd 98 entry for a
\* registered device that names a DataPoint of the device has the payload's
\* v as its stored value, and get_value() returns v decoded by pointType
KnownDeviceEntryApplied ==
    (Delivered /\ inbox.method = "command") =>
        \A i \in 1..Len(inbox.data) :
            LET d == inbox.data[i]
            IN  (d.cmd = 98 /\ d.mac \in DOMAIN devices) =>
                    \A j \in 1..Len(d.command) :
                        LET k == d.command[j][1]
                            v == d.command[j][2]
                        IN  (/\ k \in DOMAIN devices[d.mac].data_points
                             /\ v.t = "int"
                             /\ LastWrite(i, j))
                                => LET dp == devices[d.mac].data_points[k]
                                   IN  /\ dp.value = v
                                       /\ get_value(dp) = Return(Decoded(dp.point_type, v))

\* C6: a command message whose cmd 98 entries all name macs of no registered
\* device raises nothing and changes no DataPoint
UnknownMacIgnored ==
    (/\ Delivered
     /\ inbox.method = "command"
     /\ \E i \in 1..Len(inbox.data) : inbox.data[i].cmd = 98
     /\ \A i \in 1..Len(inbox.data) :
            inbox.data[i].cmd = 98 => inbox.data[i].mac \notin DOMAIN last.pre.devices)
        => /\ raised = "none"
           /\ devices = last.pre.devices

\* C7: a message whose method is not "command" is discarded: nothing is
\* raised, no DataPoint changes and no listener is invoked
OtherMethodDiscarded ==
    (Delivered /\ inbox.method # "command")
        => /\ raised = "none"
           /\ devices = last.pre.devices
           /\ \A c \in Callbacks : calls[c] = 0

\* the pairs of the message's cmd 98 entries that name mac and k
Addressed(mac, k) ==
    \E i \in 1..Len(inbox.data) :
        /\ inbox.data[i].cmd = 98
        /\ inbox.data[i].mac = mac
        /\ \E j \in 1..Len(inbox.data[i].command) : inbox.data[i].command[j][1] = k

\* the DataPoints that the last handler changed are among those that cmd 98
\* entries of the message name
OnlyAddressedChanged ==
    \A mac \in DOMAIN devices :
        \A k \in DOMAIN devices[mac].data_points :
            devices[mac].data_points[k] # last.pre.devices[mac].data_points[k]
                => Addressed(mac, k)

\* every key of entry i that names a DataPoint of the entry's device has the
\* payload's v as its stored value (unless a later pair writes it again)
EntryApplied(i) ==
    LET d == inbox.data[i]
    IN  \A j \in 1..Len(d.command) :
            (d.command[j][1] \in DOMAIN devices[d.mac].data_points /\ LastWrite(i, j))
                => devices[d.mac].data_points[d.command[j][1]].value = d.command[j][2]

\* C19: after a command message with an entry whose cmd is not 98, a warning
\* was logged for each such entry, no DataPoint changed but those that cmd 98
\* entries name, and every cmd 98 entry for a registered device is applied
OtherCmdEntryDiscarded ==
    (/\ Delivered
     /\ inbox.method = "command"
     /\ \E i \in 1..Len(inbox.data) : inbox.data[i].cmd # 98)
        => /\ warned = Cardinality({i \in 1..Len(inbox.data) : inbox.data[i].cmd # 98})
           /\ OnlyAddressedChanged
           /\ \A i \in 1..Len(inbox.data) :
                  (inbox.data[i].cmd = 98 /\ inbox.data[i].mac \in DOMAIN devices)
                      => EntryApplied(i)

\* the cmd 98 entries for a registered device with a key that names no
\* DataPoint of the device
WithUnknownKey ==
    {i \in 1..Len(inbox.data) :
        /\ inbox.data[i].cmd = 98
        /\ inbox.data[i].mac \in DOMAIN devices
        /\ \E j \in 1..Len(inbox.data[i].command) :
               inbox.data[i].command[j][1] \notin DOMAIN devices[inbox.data[i].mac].data_points}

\* C20: after a command message, no DataPoint changed but those that cmd 98
\* entries name, no DataPoint was added, and of every cmd 98 entry with a
\* key that names no DataPoint the keys that do name one are updated
UnknownKeyIgnored ==
    (Delivered /\ inbox.method = "command" /\ WithUnknownKey # {})
        => /\ OnlyAddressedChanged
           /\ \A mac \in DOMAIN devices :
                  DOMAIN devices[mac].data_points = DOMAIN last.pre.devices[mac].data_points
           /\ \A i \in WithUnknownKey : EntryApplied(i)

-----------------------------------------------------------------------------
(* The classifier: one device whose snapshot has the keys of KeyUniverse   *)
(* but a few, or the two keys every device has and a few more.             *)

MaxOdd == 2

KeyUniverse ==
    <<PARAM_ID_BOILER_CH_CUR_TEMP, PARAM_ID_BOILER_CH_SET_RANGE_DOWN,
      PARAM_ID_BOILER_CH_SET_RANGE_UP, PARAM_ID_BOILER_CH_MAX_SETPOINT,
      PARAM_ID_BOILER_CH_TRG_TEMP,
      PARAM_ID_BOILER_DHW_CUR_TEMP, PARAM_ID_BOILER_DHW_SET_RANGE_DOWN,
      PARAM_ID_BOILER_DHW_SET_RANGE_UP, PARAM_ID_BOILER_DHW_TRG_TEMP,
      PARAM_ID_TH_CUR_ROOM_TEMP, PARAM_ID_TH_TRG_ROOM_TEMP, PARAM_ID_TH_WORK_MODE,
      SYS_WORK_MODE, P(SYS_WORK_MODE),
      PARAM_ID_BOILER_DHW_PRO_EN, PARAM_ID_SYS_DST_ENABLE,
      PARAM_ID_TH_POWEROFF_FROZE_TEMP,
      PARAM_ID_BOILER_OUTDOOR_TEMP, PARAM_ID_BOILER_OT_SLAVE_STATUS, PARAM_ID_SYS_SOFT_VER,
      P(<<"BOILER", "RETURN", "TEMP">>), P(<<"BOILER", "DHW", "FLOW", "RATE">>),
      P(<<"BOILER", "WATER", "PRESSURE">>), P(<<"SYS", "WIFI", "SIGNAL">>),
      P(<<"BOILER", "FAULT", "CODE">>),
      PARAM_ID_BOILER_IS_ROOM_SENSOR_ENABL, PARAM_ID_BOILER_IS_OT_CONNECTED,
      PARAM_ID_BOILER_OTC_ENABLE, P(<<"TH", "LOCK", "ENABLE">>),
      PARAM_ID_SYS_DEVICE_MODULE, PARAM_ID_TH_DELETE_TH_ADDR,
      P(<<"BOILER", "DHW", "PRO", "MON">>), P(<<"TH", "ROOM", "PROG", "DAY", "1">>),
      P(<<"SYS", "RESERVED">>), FOO>>

AllKeys == {KeyUniverse[i] : i \in 1..Len(KeyUniverse)}

HardPruned == {PARAM_ID_SYS_DEVICE_MODULE, PARAM_ID_TH_DELETE_TH_ADDR}

Range(seq) == {seq[i] : i \in 1..Len(seq)}

\* the sets of at most MaxOdd keys
OddKeys == {{}} \cup {{f[i] : i \in 1..MaxOdd} : f \in [1..MaxOdd -> AllKeys]}

\* the keys of the Heating rule, alone, with the two keys every device has
\* and with those of the Sanitary rule too, and one more key
WaterHeaterKeySets ==
    {base \cup {k} : base \in {Range(ch_keys), HardPruned \cup Range(ch_keys),
                               HardPruned \cup Range(ch_keys) \cup Range(dhw_keys)},
                     k \in AllKeys}

KeySets ==
    {AllKeys \ odd : odd \in OddKeys} \cup {HardPruned \cup odd : odd \in OddKeys}
        \cup WaterHeaterKeySets

\* the snapshot with the given keys, in the order of KeyUniverse
Snapshot(keys) ==
    LET present == SelectSeq(KeyUniverse, LAMBDA k : k \in keys)
    IN  Row(MAC, "u1", [i \in 1..Len(present) |-> Point(present[i], i, 1, PyInt(0))])

InitClassify ==
    /\ Blank
    /\ rows \in {<<Snapshot(keys)>> : keys \in KeySets}
    /\ arg = PyNone

NextClassify ==
    \/ MqttConnect
    \/ AsyncGetDevices

SpecClassify == InitClassify /\ [][NextClassify]_vars

\* the snapshots that lack one or two keys of the universe, or have one or
\* two keys beside the two every device has, and those of the water heaters
RuleKeySets ==
    {AllKeys \ {k1, k2} : k1, k2 \in AllKeys} \cup {HardPruned \cup {k1, k2} : k1, k2 \in AllKeys}
        \cup WaterHeaterKeySets

InitRules ==
    /\ Blank
    /\ rows \in {<<Snapshot(keys)>> : keys \in RuleKeySets}
    /\ arg = PyNone

NextRules ==
    \/ MqttConnect
    \/ AsyncGetDevices

SpecRules == InitRules /\ [][NextRules]_vars

\* the sensor platform's async_setup_entry: an entity per descriptor of
\* sensors_data, and an entity per residual point, named as the point and
\* with the defaults of SensorData (no device class) for the rest
sensor_async_setup_entry(device) ==
    [sensors |-> device.sensors_data,
     data_points |-> [i \in 1..Len(device.unknown_points) |->
                         PointData(device.unknown_points[i],
                                   Plain(device.data_points[device.unknown_points[i]].name))]]

\* the keys a descriptor holds
PointsOf(descriptor) ==
    IF "data_point" \in DOMAIN descriptor THEN <<descriptor.data_point>>
    ELSE IF "hvac_mode" \in DOMAIN descriptor
    THEN <<descriptor.current_temp, descriptor.target_temp, descriptor.hvac_mode>>
    ELSE <<descriptor.min_temp, descriptor.max_temp, descriptor.current_temp,
           descriptor.target_temp>>

RECURSIVE Flatten(_)
Flatten(seqs) == IF seqs = <<>> THEN <<>> ELSE Head(seqs) \o Flatten(Tail(seqs))

GroupKeys(group) == Flatten([i \in 1..Len(group) |-> PointsOf(group[i])])

\* every key a capability group of the device holds, once per holding
ClaimedKeys(device) ==
    GroupKeys(device.water_heaters) \o GroupKeys(device.climate_data)
        \o GroupKeys(device.select_data) \o GroupKeys(device.switches_data)
        \o GroupKeys(device.numbers_data) \o GroupKeys(device.sensors_data)
        \o GroupKeys(device.binary_sensors_data)

Injective(seq) == \A i, j \in 1..Len(seq) : seq[i] = seq[j] => i = j

\* claimed, residual and the keys of dropped are the keys of the snapshot,
\* each once, and every residual key has its generic sensor
PartitionedWith(device, dropped) ==
    LET claimed  == ClaimedKeys(device)
        residual == device.unknown_points
        generic  == sensor_async_setup_entry(device).data_points
    IN  /\ Injective(claimed \o residual)
        /\ Range(claimed) \cap dropped = {}
        /\ Range(residual) \cap dropped = {}
        /\ Range(claimed) \cup Range(residual) \cup dropped = DOMAIN device.data_points
        /\ Range(residual) = {generic[i].data_point : i \in 1..Len(generic)}
        /\ \A i \in 1..Len(generic) : generic[i].name = Plain(PointName(generic[i].data_point))

Constructed == last.op = "async_get_devices"

\* the keys of the snapshot that no rule claims and that have a prefix
\* remove_unsupported_data drops
DroppedByPrefix(device) ==
    {k \in DOMAIN device.data_points : Unsupported(k)} \ Range(ClaimedKeys(device))

AlwaysExact ==
    {PARAM_ID_BOILER_CH_TRG_TEMP, PARAM_ID_TH_POWEROFF_FROZE_TEMP, PARAM_ID_BOILER_OUTDOOR_TEMP,
     PARAM_ID_SYS_DST_ENABLE, PARAM_ID_BOILER_OTC_ENABLE, PARAM_ID_BOILER_IS_OT_CONNECTED,
     PARAM_ID_BOILER_IS_ROOM_SENSOR_ENABL}

\* the keys of the sensors and binary sensors that a suffix rule made: their
\* name is the title of the point's name
GenericKeys(device) ==
    {d.data_point : d \in {x \in Range(device.sensors_data) \cup Range(device.binary_sensors_data) :
                              x.name.title # <<>>}}

\* the keys of the descriptors that an exact rule made: water heaters,
\* thermostat, and the descriptors with a fixed name
ExactKeys(device) ==
    Range(GroupKeys(device.water_heaters)) \cup Range(GroupKeys(device.climate_data))
        \cup {d.data_point : d \in {x \in Range(device.select_data) \cup Range(device.switches_data)
                                         \cup Range(device.numbers_data)
                                         \cup Range(device.sensors_data)
                                         \cup Range(device.binary_sensors_data) :
                                       x.name.text # ""}}

\* the descriptors of any group that hold the key k
Holders(device, k) ==
    SelectSeq(device.water_heaters \o device.climate_data \o device.select_data
                  \o device.switches_data \o device.numbers_data \o device.sensors_data
                  \o device.binary_sensors_data,
              LAMBDA d : k \in Range(PointsOf(d)))

\* C13: on a constructed device no key that an exact rule claimed is also a
\* suffix-classified sensor or binary sensor; the keys with a rule of their
\* own are claimed by it and never generic or residual; CH_TRG_TEMP is held
\* by the "Heating Target Temperature" sensor and by nothing else
ExactRuleBeforeSuffixRule ==
    Constructed =>
        \A mac \in DOMAIN devices :
            LET device == devices[mac]
            IN  /\ GenericKeys(device) \cap ExactKeys(device) = {}
                /\ \A k \in AlwaysExact \cap DOMAIN device.data_points :
                       /\ k \in ExactKeys(device)
                       /\ k \notin GenericKeys(device)
                       /\ k \notin Range(device.unknown_points)
                       /\ Len(Holders(device, k)) = 1
                /\ PARAM_ID_BOILER_CH_TRG_TEMP \in DOMAIN device.data_points
                       => Holders(device, PARAM_ID_BOILER_CH_TRG_TEMP)
                              = <<PointData(PARAM_ID_BOILER_CH_TRG_TEMP,
                                            Named("Heating Target Temperature"))>>

\* C13 witness: a device with the Heating water heater, the thermostat, the
\* Heating Target Temperature sensor and a sensor that the _TEMP rule made
ExactRuleBeforeSuffixRuleWitness ==
    /\ Constructed
    /\ MAC \in DOMAIN devices
    /\ Len(devices[MAC].water_heaters) = 2
    /\ Len(devices[MAC].climate_data) = 1
    /\ PARAM_ID_BOILER_CH_TRG_TEMP \in ExactKeys(devices[MAC])
    /\ PARAM_ID_BOILER_CH_CUR_TEMP \in ExactKeys(devices[MAC])
    /\ P(<<"BOILER", "RETURN", "TEMP">>) \in GenericKeys(devices[MAC])
    /\ P(<<"TH", "LOCK", "ENABLE">>) \in GenericKeys(devices[MAC])

\* the keys of the snapshot the device is constructed from
SnapshotKeys == Range(KeysOf(rows[1]))

\* C14: construction from a snapshot without PARAM_ID_SYS_DEVICE_MODULE or
\* without PARAM_ID_TH_DELETE_TH_ADDR raises KeyError, and the device is not
\* in self.devices and has subscribed to nothing; with both keys the device
\* is constructed and the two keys are in no group, not residual and have
\* no generic sensor
MissingHardPrunedKeyRaises ==
    Constructed =>
        /\ ~(HardPruned \subseteq SnapshotKeys) =>
               /\ raised = "KeyError"
               /\ DOMAIN devices = {}
               /\ subscribed = {}
        /\ HardPruned \subseteq SnapshotKeys =>
               /\ raised = "none"
               /\ DOMAIN devices = {MAC}
               /\ HardPruned \subseteq DOMAIN devices[MAC].data_points
               /\ HardPruned \cap Range(ClaimedKeys(devices[MAC])) = {}
               /\ HardPruned \cap Range(devices[MAC].unknown_points) = {}
               /\ \A i \in 1..Len(sensor_async_setup_entry(devices[MAC]).data_points) :
                      sensor_async_setup_entry(devices[MAC]).data_points[i].data_point
                          \notin HardPruned

\* C14 witness: a snapshot with PARAM_ID_SYS_DEVICE_MODULE, without
\* PARAM_ID_TH_DELETE_TH_ADDR and with keys that rules claim; construction
\* raised on the second pop
MissingHardPrunedKeyRaisesWitness ==
    /\ Constructed
    /\ PARAM_ID_SYS_DEVICE_MODULE \in SnapshotKeys
    /\ PARAM_ID_TH_DELETE_TH_ADDR \notin SnapshotKeys
    /\ Range(ch_keys) \subseteq SnapshotKeys
    /\ _mqtt = "client"
    /\ raised = "KeyError"
    /\ DOMAIN devices = {}

\* the keys a tuple rule takes from a working map with the given keys:
\* those of removed if every key of required is there, none otherwise
Taken(required, removed, keys) ==
    IF Range(required) \subseteq Range(keys) THEN removed ELSE {}

\* the descriptors a tuple rule emits: one if every key of required is there
Emitted(required, keys) == IF Range(required) \subseteq Range(keys) THEN 1 ELSE 0

\* out has a descriptor with exactly the points of removed at position i
References(out, i, removed) ==
    /\ i \in 1..Len(out)
    /\ Injective(PointsOf(out[i]))
    /\ Range(PointsOf(out[i])) = removed

\* the water heater pass and the thermostat pass after it, on the keys of
\* the snapshot, take the keys of their satisfied rules, heating being what
\* a satisfied Heating rule takes, and emit a descriptor per satisfied rule
\* that references the keys taken; what the device then has is what the
\* passes emitted, and a key of an unsatisfied rule is in a later group or
\* residual
TupleRules(heating) ==
    LET keys == KeysOf(rows[1])
        wh   == get_water_heaters(keys)
        cl   == get_climate_data(wh.data_points)
        H    == Emitted(ch_keys, keys)
        S    == Emitted(dhw_keys, keys)
        T    == Emitted(thermostat_keys, keys)
    IN  /\ wh.exc = "none"
        /\ wh.data_points = SelectSeq(keys, LAMBDA k :
               k \notin Taken(ch_keys, heating, keys) \cup Taken(dhw_keys, Range(dhw_keys), keys))
        /\ Len(wh.out) = H + S
        /\ H = 1 => References(wh.out, 1, heating)
        /\ S = 1 => References(wh.out, H + 1, Range(dhw_keys))
        /\ cl.exc = "none"
        /\ cl.data_points = SelectSeq(wh.data_points, LAMBDA k :
               k \notin Taken(thermostat_keys, Range(thermostat_keys), keys))
        /\ Len(cl.out) = T
        /\ T = 1 => References(cl.out, 1, Range(thermostat_keys))
        /\ \A mac \in DOMAIN devices :
               /\ devices[mac].water_heaters = wh.out
               /\ devices[mac].climate_data = cl.out
               /\ \A k \in Range(keys) \cap ((IF H = 0 THEN Range(ch_keys) ELSE {})
                                             \cup (IF S = 0 THEN Range(dhw_keys) ELSE {})
                                             \cup (IF T = 0 THEN Range(thermostat_keys) ELSE {})) :
                      /\ k \notin Range(GroupKeys(devices[mac].water_heaters))
                      /\ k \notin Range(GroupKeys(devices[mac].climate_data))
                      /\ k \in Range(ClaimedKeys(devices[mac]))
                                 \cup Range(devices[mac].unknown_points)

\* C21, as stated: each tuple rule (Heating, Sanitary, Thermostat) whose
\* required keys are all present removes all of them and emits one
\* descriptor that references them; a rule with a key absent emits nothing
\* and removes none, its present keys going to later rules or staying residual
TupleRulesAllOrNothing == Constructed => TupleRules(Range(ch_keys))

\* C21, amended: as stated, but the satisfied Heating rule removes and
\* references its four keys other than PARAM_ID_BOILER_CH_TRG_TEMP, which
\* it requires and leaves in the working map
TupleRulesAllOrNothingButTarget ==
    Constructed => TupleRules(Range(ch_keys) \ {PARAM_ID_BOILER_CH_TRG_TEMP})

\* C21 witness: a constructed device whose snapshot has every key of the
\* Heating and Sanitary rules and two of the three of the Thermostat rule:
\* two water heaters, no thermostat, the two thermostat keys in the sensors
TupleRulesAllOrNothingWitness ==
    /\ Constructed
    /\ MAC \in DOMAIN devices
    /\ Range(ch_keys) \cup Range(dhw_keys) \subseteq SnapshotKeys
    /\ Range(thermostat_keys) \cap SnapshotKeys
           = {PARAM_ID_TH_CUR_ROOM_TEMP, PARAM_ID_TH_TRG_ROOM_TEMP}
    /\ Len(devices[MAC].water_heaters) = 2
    /\ devices[MAC].climate_data = <<>>
    /\ PARAM_ID_TH_CUR_ROOM_TEMP \in GenericKeys(devices[MAC])
    /\ PARAM_ID_BOILER_CH_TRG_TEMP \in ExactKeys(devices[MAC])

\* the working map that get_sensors_data is given: what the passes before
\* it left of the snapshot's keys
BeforeSensors ==
    set_numbers_data(set_switches_data(set_select_data(set_climate_data(
        set_water_heaters(Parsed(KeysOf(rows[1]))))))).unknown_points

\* the sensor pass st on the working map: no pop raised, every key is
\* either left in the map or held by one descriptor, once
ClaimsOnce(working, st) ==
    /\ st.exc = "none"
    /\ Injective(GroupKeys(st.out) \o st.data_points)
    /\ Range(GroupKeys(st.out)) \cup Range(st.data_points) = Range(working)
    /\ st.data_points = SelectSeq(working, LAMBDA k : k \notin Range(GroupKeys(st.out)))

\* C23: for any key set, the sensor pass raises no lookup error and no key
\* is appended to sensors_data twice: every key of the working map is held
\* by at most one sensor descriptor and is then out of the map, and the
\* constructed device has these descriptors
SensorPassClaimsOnce ==
    Constructed =>
        /\ ClaimsOnce(BeforeSensors, get_sensors_data(BeforeSensors))
        /\ raised = "KeyError" => ~(HardPruned \subseteq SnapshotKeys)
        /\ \A mac \in DOMAIN devices :
               /\ devices[mac].sensors_data = get_sensors_data(BeforeSensors).out
               /\ Injective(GroupKeys(devices[mac].sensors_data))

\* C23 witness: a constructed device whose sensors include the one of the
\* exact Outdoor Temperature rule, which the _TEMP rule matches too, and one
\* of each suffix rule
SensorPassClaimsOnceWitness ==
    /\ Constructed
    /\ MAC \in DOMAIN devices
    /\ PointData(PARAM_ID_BOILER_OUTDOOR_TEMP, Named("Outdoor Temperature"))
           \in Range(devices[MAC].sensors_data)
    /\ {P(<<"BOILER", "RETURN", "TEMP">>), P(<<"BOILER", "DHW", "FLOW", "RATE">>),
        P(<<"BOILER", "WATER", "PRESSURE">>), P(<<"BOILER", "FAULT", "CODE">>)}
           \subseteq GenericKeys(devices[MAC])
    /\ PointData(P(<<"SYS", "WIFI", "SIGNAL">>), Named("WiFi Signal"))
           \in Range(devices[MAC].sensors_data)
    /\ Len(devices[MAC].sensors_data) >= 8

\* C28: the device has the Work Mode select exactly when its snapshot has
\* the key SYS_WORK_MODE, the select being of that point; the point of the
\* key PARAM_ID_SYS_WORK_MODE is in no group, is residual and has a generic
\* sensor
WorkModeSelectOnBareKey ==
    (Constructed /\ raised = "none") =>
        LET device == devices[MAC]
            keys   == Range(KeysOf(rows[1]))
        IN  /\ device.select_data =
                   IF SYS_WORK_MODE \in keys
                   THEN <<PointData(SYS_WORK_MODE, Named("Work Mode"))>>
                   ELSE <<>>
            /\ SYS_WORK_MODE \notin Range(device.unknown_points)
            /\ P(SYS_WORK_MODE) \in keys =>
                   /\ P(SYS_WORK_MODE) \notin Range(ClaimedKeys(device))
                   /\ P(SYS_WORK_MODE) \in Range(device.unknown_points)
                   /\ \E i \in 1..Len(sensor_async_setup_entry(device).data_points) :
                          sensor_async_setup_entry(device).data_points[i].data_point
                              = P(SYS_WORK_MODE)

\* a device whose work mode point has the prefixed key only: no select
WorkModeSelectOnBareKeyWitness ==
    /\ Constructed
    /\ raised = "none"
    /\ P(SYS_WORK_MODE) \in Range(KeysOf(rows[1]))
    /\ SYS_WORK_MODE \notin Range(KeysOf(rows[1]))
    /\ devices[MAC].select_data = <<>>
    /\ P(SYS_WORK_MODE) \in Range(devices[MAC].unknown_points)

-----------------------------------------------------------------------------
(* The serial counter: the entities' mutators are plain methods, which the  *)
(* host runs on the threads of its executor, so several set_value calls,   *)
(* and with them several send_mqtt_command calls, are under way at once.   *)
(* A call is three steps: up to and including self._mqtt_serial += 1, the  *)
(* dict literal's read of self._mqtt_serial, and the publish.              *)

\* set_value up to the increment of send_mqtt_command, on the thread t
SendIncrement(t, mac, k) ==
    /\ sending[t].pc = "idle"
    /\ mac \in DOMAIN devices
    /\ k \in DOMAIN devices[mac].data_points
    /\ _mqtt_serial < MaxPublished
    /\ LET enc == encode(devices[mac].data_points[k].point_type, arg)
           w   == IF enc.exc # "none" THEN [World EXCEPT !.raised = enc.exc]
                  ELSE [World EXCEPT !.devices[mac].data_points[k].value = enc.val]
           go  == w.raised = "none" /\ w._mqtt # "None"
       IN  /\ Commit(IF go THEN Increment(w) ELSE w)
           /\ sending' = IF go
                         THEN [sending EXCEPT ![t] =
                                  [pc |-> "incremented", mac |-> mac, key |-> k,
                                   value |-> arg,
                                   command |-> Command(DataPointOf(w, mac, k)), serial |-> 0]]
                         ELSE sending
           /\ last' = Last("set_value", mac, k, 0, arg, w.raised = "none")
    /\ UNCHANGED <<rows, inbox, ret, arg, updating>>

\* "serial": self._mqtt_serial, on the thread t
SendRead(t) ==
    /\ sending[t].pc = "incremented"
    /\ sending' = [sending EXCEPT ![t].pc = "built", ![t].serial = _mqtt_serial]
    /\ UNCHANGED <<rows, devices, _mqtt, _mqtt_serial, subscribed, published, inbox,
                   calls, cache, warned, raised, ret, last, arg, updating>>

\* self.publish_mqtt_message(topic, payload_str), on the thread t
SendPublish(t) ==
    /\ sending[t].pc = "built"
    /\ LET device == devices[sending[t].mac]
       IN  Commit(publish_mqtt_message(World, Topic(device),
                      Payload(device, sending[t].serial, sending[t].command)))
    /\ sending' = [sending EXCEPT ![t] = NotSending]
    /\ last' = Last("send_mqtt_command", sending[t].mac, <<>>, 0, PyNone, last.written)
    /\ UNCHANGED <<rows, inbox, ret, arg, updating>>

InitSerial ==
    /\ Blank
    /\ rows = <<PointRow(1)>>
    /\ arg \in {PyInt(0), PyInt(1), PyInt(7)}

NextSerial ==
    \/ MqttConnect
    \/ AsyncGetDevices
    \/ \E t \in Senders : SendIncrement(t, MAC, FOO)
    \/ \E t \in Senders : SendRead(t)
    \/ \E t \in Senders : SendPublish(t)

SpecSerial == InitSerial /\ [][NextSerial]_vars

\* the serial of the i-th published command
PublishedSerial(i) == published[i].payload.common.serial

\* C11: the serials of the published commands are strictly increasing in the
\* order of publication, so that no serial is carried by two commands, also
\* when several threads are inside send_mqtt_command
SerialsStrictlyIncreasing ==
    \A i, j \in 1..Len(published) : i < j => PublishedSerial(i) < PublishedSerial(j)

-----------------------------------------------------------------------------
(* The listener set under two threads: the MQTT client's thread runs       *)
(* update_value, the host's event loop runs add_listener and               *)
(* remove_listener (async_added_to_hass, async_will_remove_from_hass), and *)
(* the loop of update_value is one step per listener. A set's iterator     *)
(* walks the table of the set slot by slot; a callback keeps its slot.     *)

\* self.value = data, and the iterator that the for statement takes of
\* self._listener: order is the order of the slots, used the size of the set
UpdateBegin(mac, k, data, order) ==
    /\ updating.state # "iterating"
    /\ mac \in DOMAIN devices
    /\ k \in DOMAIN devices[mac].data_points
    /\ Commit([World EXCEPT !.devices[mac].data_points[k].value = data])
    /\ updating' = [state |-> "iterating", mac |-> mac, key |-> k, order |-> order, pos |-> 0,
                    used |-> Cardinality(devices[mac].data_points[k]._listener),
                    stayed |-> devices[mac].data_points[k]._listener]
    /\ last' = Last("update_value", mac, k, 0, data, FALSE)
    /\ UNCHANGED <<rows, inbox, ret, arg, sending>>

\* the slots after pos whose callback is in the set now
SlotsLeft(it, listeners) == {i \in (it.pos + 1)..Len(it.order) : it.order[i] \in listeners}

\* the world after the iterator's next step and the call of the callback it
\* yields, if any: the iterator raises when the set is not of the size it had
\* when the loop began, and the loop ends after the last slot
next_listener(w, it) ==
    LET listeners == DataPointOf(w, it.mac, it.key)._listener
        left      == SlotsLeft(it, listeners)
    IN  IF Cardinality(listeners) # it.used THEN [w EXCEPT !.raised = "RuntimeError"]
        ELSE IF left = {} THEN w
        ELSE handle_update(w, it.order[CHOOSE i \in left : \A j \in left : i <= j],
                           it.mac, it.key)

\* one round of for c in self._listener: c()
UpdateNext ==
    /\ updating.state = "iterating"
    /\ LET listeners == devices[updating.mac].data_points[updating.key]._listener
           left      == SlotsLeft(updating, listeners)
           w         == next_listener(World, updating)
       IN  /\ Commit(w)
           /\ updating' =
                  IF w.raised # "none" \/ left = {} THEN [updating EXCEPT !.state = "done"]
                  ELSE [updating EXCEPT !.pos = CHOOSE i \in left : \A j \in left : i <= j]
    /\ UNCHANGED <<rows, inbox, ret, last, arg, sending>>

InitObserver ==
    /\ Blank
    /\ rows = <<PointRow(8)>>
    /\ arg = PyNone

NextObserver ==
    \/ AsyncGetDevices
    \/ \E cb \in Callbacks : AddListener(MAC, FOO, cb)
    \/ \E cb \in Callbacks : RemoveListener(MAC, FOO, cb)
    \/ \E order \in Iterations : UpdateBegin(MAC, FOO, PyInt(7), order)
    \/ UpdateNext

SpecObserver == InitObserver /\ [][NextObserver]_vars

\* C15: an update_value that other threads' add_listener and remove_listener
\* calls interleave with ends without an exception and has invoked exactly
\* once every listener that was registered from its beginning to its end
ConcurrentUpdateInvokesStayedListeners ==
    updating.state = "done" =>
        /\ raised = "none"
        /\ \A c \in updating.stayed : calls[c] = 1

-----------------------------------------------------------------------------
(* The entities' mutators, as the host calls them: number.py, switch.py,   *)
(* climate.py and water_heater.py. data is the descriptor of the entity.   *)

\* RadiantSmartNumber.set_native_value(value)
number_set_native_value(w, mac, data, value) == set_value(w, mac, data.data_point, value)

\* RadiantSmartSwitch.turn_on() and turn_off()
switch_turn_on(w, mac, data)  == set_value(w, mac, data.data_point, PyInt(1))
switch_turn_off(w, mac, data) == set_value(w, mac, data.data_point, PyInt(0))

\* RadiantSmartThermostat.set_temperature(temperature=...)
climate_set_temperature(w, mac, data, temperature) ==
    set_value(w, mac, data.target_temp, temperature)

\* for v, m in self._data.hvac_modes.items(): if hvac_mode == m: set_value(v)
RECURSIVE HvacModeLoop(_, _, _, _, _)
HvacModeLoop(w, mac, data, hvac_mode, items) ==
    IF items = <<>> \/ w.raised # "none" THEN w
    ELSE HvacModeLoop(IF hvac_mode = Head(items)[2]
                      THEN set_value(w, mac, data.hvac_mode, PyInt(Head(items)[1]))
                      ELSE w,
                      mac, data, hvac_mode, Tail(items))

\* RadiantSmartThermostat.set_hvac_mode(hvac_mode)
climate_set_hvac_mode(w, mac, data, hvac_mode) == HvacModeLoop(w, mac, data, hvac_mode, hvac_modes)

\* RadiantSmartThermostat.turn_on() and turn_off(): a bare return
climate_turn_on(w, mac, data)  == w
climate_turn_off(w, mac, data) == w

\* RadiantSmartWaterHeater.set_temperature(temperature=...)
water_heater_set_temperature(w, mac, data, temperature) ==
    set_value(w, mac, data.target_temp, temperature)

\* the host called the mutator op of the i-th entity of its platform, which
\* took the state to w
Mutated(op, mac, i, w) ==
    /\ Len(published) < MaxPublished
    /\ Commit(w)
    /\ last' = Last(op, mac, <<>>, i, arg, w.raised = "none")
    /\ UNCHANGED <<rows, inbox, ret, arg, sending, updating>>

NumberSetNativeValue(mac, i) ==
    /\ mac \in DOMAIN devices
    /\ i \in 1..Len(devices[mac].numbers_data)
    /\ Mutated("number.set_native_value", mac, i,
               number_set_native_value(World, mac, devices[mac].numbers_data[i], arg))

SwitchTurnOn(mac, i) ==
    /\ mac \in DOMAIN devices
    /\ i \in 1..Len(devices[mac].switches_data)
    /\ Mutated("switch.turn_on", mac, i, switch_turn_on(World, mac, devices[mac].switches_data[i]))

SwitchTurnOff(mac, i) ==
    /\ mac \in DOMAIN devices
    /\ i \in 1..Len(devices[mac].switches_data)
    /\ Mutated("switch.turn_off", mac, i, switch_turn_off(World, mac, devices[mac].switches_data[i]))

ClimateSetTemperature(mac, i) ==
    /\ mac \in DOMAIN devices
    /\ i \in 1..Len(devices[mac].climate_data)
    /\ Mutated("climate.set_temperature", mac, i,
               climate_set_temperature(World, mac, devices[mac].climate_data[i], arg))

ClimateSetHvacMode(mac, i, hvac_mode) ==
    /\ mac \in DOMAIN devices
    /\ i \in 1..Len(devices[mac].climate_data)
    /\ Mutated("climate.set_hvac_mode", mac, i,
               climate_set_hvac_mode(World, mac, devices[mac].climate_data[i], hvac_mode))

ClimateTurnOn(mac, i) ==
    /\ mac \in DOMAIN devices
    /\ i \in 1..Len(devices[mac].climate_data)
    /\ Mutated("climate.turn_on", mac, i, climate_turn_on(World, mac, devices[mac].climate_data[i]))

ClimateTurnOff(mac, i) ==
    /\ mac \in DOMAIN devices
    /\ i \in 1..Len(devices[mac].climate_data)
    /\ Mutated("climate.turn_off", mac, i, climate_turn_off(World, mac, devices[mac].climate_data[i]))

WaterHeaterSetTemperature(mac, i) ==
    /\ mac \in DOMAIN devices
    /\ i \in 1..Len(devices[mac].water_heaters)
    /\ Mutated("water_heater.set_temperature", mac, i,
               water_heater_set_temperature(World, mac, devices[mac].water_heaters[i], arg))

\* a boiler with its thermostat: temperatures are of pointType 2, modes and
\* switches of pointType 1
EntityRow ==
    DeviceRow(MAC,
        <<Point(PARAM_ID_BOILER_CH_CUR_TEMP, 1, 2, PyInt(450)),
          Point(PARAM_ID_BOILER_CH_SET_RANGE_DOWN, 2, 2, PyInt(300)),
          Point(PARAM_ID_BOILER_CH_SET_RANGE_UP, 3, 2, PyInt(800)),
          Point(PARAM_ID_BOILER_CH_MAX_SETPOINT, 4, 2, PyInt(600)),
          Point(PARAM_ID_BOILER_CH_TRG_TEMP, 5, 2, PyInt(600)),
          Point(PARAM_ID_TH_CUR_ROOM_TEMP, 6, 2, PyInt(195)),
          Point(PARAM_ID_TH_TRG_ROOM_TEMP, 7, 2, PyInt(200)),
          Point(PARAM_ID_TH_WORK_MODE, 10, 1, PyInt(0)),
          Point(PARAM_ID_SYS_DST_ENABLE, 11, 1, PyInt(0)),
          Point(PARAM_ID_TH_POWEROFF_FROZE_TEMP, 12, 2, PyInt(50))>>)

HvacModes == {hvac_modes[i][2] : i \in 1..Len(hvac_modes)}

InitEntity ==
    /\ Blank
    /\ rows = <<EntityRow>>
    /\ arg \in {PyFloat(Decimal(205, 10)), PyInt(7)}

NextEntity ==
    \/ MqttConnect
    \/ AsyncGetDevices
    \/ NumberSetNativeValue(MAC, 1)
    \/ SwitchTurnOn(MAC, 1)
    \/ SwitchTurnOff(MAC, 1)
    \/ ClimateSetTemperature(MAC, 1)
    \/ \E hvac_mode \in HvacModes : ClimateSetHvacMode(MAC, 1, hvac_mode)
    \/ ClimateTurnOn(MAC, 1)
    \/ ClimateTurnOff(MAC, 1)
    \/ WaterHeaterSetTemperature(MAC, 1)

SpecEntity == InitEntity /\ [][NextEntity]_vars

MutatorOps ==
    {"number.set_native_value", "switch.turn_on", "switch.turn_off", "climate.set_temperature",
     "climate.set_hvac_mode", "climate.turn_on", "climate.turn_off",
     "water_heater.set_temperature"}

\* the keys of the DataPoints of the entity that the last mutator was called on
EntityKeys ==
    LET device == devices[last.mac]
    IN  CASE last.op = "number.set_native_value" -> PointsOf(device.numbers_data[last.cb])
          [] last.op \in {"switch.turn_on", "switch.turn_off"} ->
                PointsOf(device.switches_data[last.cb])
          [] last.op = "water_heater.set_temperature" -> PointsOf(device.water_heaters[last.cb])
          [] OTHER -> PointsOf(device.climate_data[last.cb])

\* C16: with the transport connected, every mutator of an entity returns
\* with exactly one more command published, and that command carries the
\* index of one of the entity's DataPoints
EveryMutatorSendsCommand ==
    (last.op \in MutatorOps /\ last.pre._mqtt = "client") =>
        /\ raised = "none"
        /\ Len(published) = Len(last.pre.published) + 1
        /\ \E k \in Range(EntityKeys) :
               published[Len(published)].payload.data[1].command[1].i
                   = devices[last.mac].data_points[k].index

-----------------------------------------------------------------------------
(* A home: the boiler with its thermostat, and the entities that the       *)
(* platforms make of its descriptors. The thermostat is callback 1, the    *)
(* Heating water heater callback 2, the Auto Time Sync switch callback 3.  *)

\* RadiantSmartThermostat.__init__: the attributes it reads from its points
climate_init(w, callback, mac, data) ==
    Refresh(
        Refresh(
            Refresh([w EXCEPT !.cache[callback] =
                         [current_temperature |-> PyNone, target_temperature |-> PyNone,
                          hvac_mode |-> PyNone]],
                    callback, "current_temperature",
                    get_value(DataPointOf(w, mac, data.current_temp))),
            callback, "target_temperature", get_value(DataPointOf(w, mac, data.target_temp))),
        callback, "hvac_mode", hvac_modes_get(get_value(DataPointOf(w, mac, data.hvac_mode))))

\* RadiantSmartThermostat.async_added_to_hass
climate_async_added_to_hass(w, callback, mac, data) ==
    IF w.raised # "none" THEN w
    ELSE add_listener(add_listener(add_listener(w, mac, data.current_temp, callback),
                                   mac, data.target_temp, callback),
                      mac, data.hvac_mode, callback)

\* RadiantSmartWaterHeater.__init__
water_heater_init(w, callback, mac, data) ==
    Refresh(
        Refresh([w EXCEPT !.cache[callback] =
                     [current_temperature |-> PyNone, target_temperature |-> PyNone]],
                callback, "current_temperature",
                get_value(DataPointOf(w, mac, data.current_temp))),
        callback, "target_temperature", get_value(DataPointOf(w, mac, data.target_temp)))

\* RadiantSmartWaterHeater.async_added_to_hass
water_heater_async_added_to_hass(w, callback, mac, data) ==
    IF w.raised # "none" THEN w
    ELSE add_listener(add_listener(w, mac, data.current_temp, callback),
                      mac, data.target_temp, callback)

\* RadiantSmartSwitch.__init__
switch_init(w, callback, mac, data) ==
    LET r == get_value(DataPointOf(w, mac, data.data_point))
    IN  Refresh([w EXCEPT !.cache[callback] = [is_on |-> PyNone]], callback, "is_on",
                IF r.exc # "none" THEN r ELSE Return(py_bool(r.val)))

\* RadiantSmartSwitch.async_added_to_hass
switch_async_added_to_hass(w, callback, mac, data) ==
    IF w.raised # "none" THEN w ELSE add_listener(w, mac, data.data_point, callback)

\* hass.config_entries.async_forward_entry_setups: the climate, switch and
\* water heater platforms make and add the entity of their first descriptor
async_forward_entry_setups(w, mac) ==
    water_heater_async_added_to_hass(
        water_heater_init(
            switch_async_added_to_hass(
                switch_init(
                    climate_async_added_to_hass(
                        climate_init(w, 1, mac, w.devices[mac].climate_data[1]),
                        1, mac, w.devices[mac].climate_data[1]),
                    3, mac, w.devices[mac].switches_data[1]),
                3, mac, w.devices[mac].switches_data[1]),
            2, mac, w.devices[mac].water_heaters[1]),
        2, mac, w.devices[mac].water_heaters[1])

AsyncForwardEntrySetups(mac) ==
    /\ last.op = "async_get_devices"
    /\ mac \in DOMAIN devices
    /\ Commit(async_forward_entry_setups(World, mac))
    /\ last' = Last("async_forward_entry_setups", mac, <<>>, 0, PyNone, FALSE)
    /\ UNCHANGED <<rows, inbox, ret, arg, sending, updating>>

\* the MQTT client calls on_message with a command message of the given
\* entries
DeliverCommand(data, iteration) ==
    /\ subscribed # {}
    /\ inbox' = [method |-> "command", data |-> data, state |-> "delivered"]
    /\ Commit(on_mqtt_message(World, [method |-> "command", data |-> data], iteration))
    /\ last' = Last("on_mqtt_message", "", <<>>, 0, PyNone, FALSE)
    /\ UNCHANGED <<rows, ret, arg, sending, updating>>

\* the boiler and its thermostat, with a point that no rule claims
HomeRow == [EntityRow EXCEPT !.pointDataMap = Append(@, Point(FOO, 13, 8, PyInt(0)))]

\* an entry for the thermostat's three points
ThermostatEntry ==
    Entry(98, MAC, <<<<PARAM_ID_TH_CUR_ROOM_TEMP, PyInt(215)>>,
                     <<PARAM_ID_TH_TRG_ROOM_TEMP, PyInt(220)>>,
                     <<PARAM_ID_TH_WORK_MODE, PyInt(1)>>>>)

\* an entry for the work mode, at a value outside the mode table, the
\* two temperatures that the water heater shows, a point in no group and
\* one that is pruned
BoilerEntry ==
    Entry(98, MAC, <<<<PARAM_ID_TH_WORK_MODE, PyInt(2)>>,
                     <<PARAM_ID_BOILER_CH_CUR_TEMP, PyInt(500)>>,
                     <<PARAM_ID_BOILER_CH_MAX_SETPOINT, PyInt(650)>>,
                     <<FOO, PyInt(9)>>,
                     <<PARAM_ID_SYS_DEVICE_MODULE, PyInt(5)>>>>)

\* an entry for the switch, and for the target temperature without its v
SwitchEntry ==
    Entry(98, MAC, <<<<PARAM_ID_SYS_DST_ENABLE, PyInt(1)>>,
                     <<PARAM_ID_TH_TRG_ROOM_TEMP, PyNone>>>>)

\* the command messages that arrive
HomeMessages ==
    {<<ThermostatEntry>>, <<BoilerEntry>>, <<SwitchEntry>>,
     <<BoilerEntry, ThermostatEntry>>, <<SwitchEntry, ThermostatEntry>>}

InitHome ==
    /\ Blank
    /\ rows = <<HomeRow>>
    /\ arg = PyNone

NextHome ==
    \/ MqttConnect
    \/ AsyncGetDevices
    \/ AsyncForwardEntrySetups(MAC)
    \/ \E data \in HomeMessages : DeliverCommand(data, Registration)
    \/ SwitchTurnOn(MAC, 1)

SpecHome == InitHome /\ [][NextHome]_vars

\* the capability groups and the residual keys of a device
Membership(device) == [g \in Range(Groups) \cup {"unknown_points"} |-> device[g]]

\* the (key, v) pairs of a message for the device, in the order the router
\* meets them
RECURSIVE PairsFor(_, _)
PairsFor(data, mac) ==
    IF data = <<>> THEN <<>>
    ELSE (IF Head(data).cmd = 98 /\ Head(data).mac = mac THEN Head(data).command ELSE <<>>)
             \o PairsFor(Tail(data), mac)

\* the v of the last pair of the sequence that names the key
LastFor(pairs, k) ==
    pairs[CHOOSE i \in 1..Len(pairs) :
              /\ pairs[i][1] = k
              /\ \A j \in (i + 1)..Len(pairs) : pairs[j][1] # k][2]

\* every point that the message named holds the last v the message had for it
Routed(data, mac, after) ==
    \A i \in 1..Len(PairsFor(data, mac)) :
        LET k == PairsFor(data, mac)[i][1]
        IN  after[mac].data_points[k].value = LastFor(PairsFor(data, mac), k)

\* the keys of the device that some group claims, that are residual, and the
\* two that are pruned
ClaimedOf(device)  == Range(ClaimedKeys(device))
ResidualOf(device) == Range(device.unknown_points)

\* C24: after construction no step (an inbound message, a set_value of an
\* entity, the entities' setup) changes the membership of a capability group
\* or of unknown_points, data_points has every key of the snapshot, and a
\* message that the router handled to its end has updated every point it
\* named, claimed, residual or pruned
ClassifiedOnceOnACopy ==
    [][(MAC \in DOMAIN devices /\ last'.op # "async_get_devices") =>
          /\ MAC \in DOMAIN devices'
          /\ Membership(devices'[MAC]) = Membership(devices[MAC])
          /\ DOMAIN devices'[MAC].data_points = Range(KeysOf(rows[1]))
          /\ (last'.op = "on_mqtt_message" /\ raised' = "none") =>
                 Routed(inbox'.data, MAC, devices')]_vars

\* a message that named a claimed, a residual and a pruned point was handled
\* to its end, and a switch was turned on after it
ClassifiedOnceOnACopyWitness ==
    /\ last.op = "switch.turn_on"
    /\ raised = "none"
    /\ inbox.state = "delivered"
    /\ inbox.data = <<BoilerEntry>>
    /\ PARAM_ID_TH_WORK_MODE \in ClaimedOf(devices[MAC])
    /\ FOO \in ResidualOf(devices[MAC])
    /\ PARAM_ID_SYS_DEVICE_MODULE \notin ClaimedOf(devices[MAC]) \cup ResidualOf(devices[MAC])
    /\ devices[MAC].data_points[PARAM_ID_TH_WORK_MODE].value = PyInt(2)
    /\ devices[MAC].data_points[FOO].value = PyInt(9)
    /\ devices[MAC].data_points[PARAM_ID_SYS_DEVICE_MODULE].value = PyInt(5)
    /\ devices[MAC].data_points[PARAM_ID_SYS_DST_ENABLE].value = PyInt(1)

-----------------------------------------------------------------------------
(* set_value beside the MQTT thread: the executor thread t stores the       *)
(* encoded value in the DataPoint, and send_data_point_update reads         *)
(* dp.value when it builds the command; update_value, on the MQTT client's  *)
(* thread, assigns the same attribute, and no lock is held.                 *)

\* the match statement of set_value(value), on the thread t
SetValueStore(t, mac, k) ==
    /\ sending[t].pc = "idle"
    /\ mac \in DOMAIN devices
    /\ k \in DOMAIN devices[mac].data_points
    /\ Len(published) < MaxPublished
    /\ LET enc == encode(devices[mac].data_points[k].point_type, arg)
       IN  /\ Commit(IF enc.exc # "none" THEN [World EXCEPT !.raised = enc.exc]
                     ELSE [World EXCEPT !.devices[mac].data_points[k].value = enc.val])
           /\ sending' = IF enc.exc # "none" THEN sending
                         ELSE [sending EXCEPT ![t] =
                                  [NotSending EXCEPT !.pc = "stored", !.mac = mac, !.key = k,
                                                     !.value = arg]]
           /\ last' = Last("set_value", mac, k, t, arg, enc.exc = "none")
    /\ UNCHANGED <<rows, inbox, ret, arg, updating>>

\* self.device.send_data_point_update(self), on the thread t
SetValueSend(t) ==
    /\ sending[t].pc = "stored"
    /\ Commit(send_data_point_update(World, sending[t].mac, sending[t].key))
    /\ sending' = [sending EXCEPT ![t] = NotSending]
    /\ last' = Last("send_data_point_update", sending[t].mac, sending[t].key, t,
                    sending[t].value, last.written)
    /\ UNCHANGED <<rows, inbox, ret, arg, updating>>

\* the v of the inbound commands
InboundValues == {PyInt(9), PyInt(1)}

InitStore ==
    /\ Blank
    /\ rows = <<PointRow(1)>>
    /\ arg \in {PyInt(0), PyInt(1), PyInt(7)}

\* async_setup_entry connects, then gets the devices
NextStore ==
    \/ MqttConnect
    \/ _mqtt = "client" /\ AsyncGetDevices
    \/ \E t \in Senders : SetValueStore(t, MAC, FOO)
    \/ \E t \in Senders : SetValueSend(t)
    \/ \E data \in InboundValues : UpdateValue(MAC, FOO, data, Registration)

SpecStore == InitStore /\ [][NextStore]_vars

\* C25: the command that set_value(v) publishes carries the encoding of v,
\* whatever update_value did between the store and the send
PublishedCommandCarriesSetValue ==
    (last.op = "send_data_point_update" /\ Len(published) > Len(last.pre.published)) =>
        published[Len(published)].payload.data[1].command[1].v
            = encode(devices[last.mac].data_points[last.key].point_type, last.v).val

-----------------------------------------------------------------------------
(* async_get_devices beside the MQTT thread: mqtt_connect has started the   *)
(* client's thread (loop_start) before async_get_devices runs on the event  *)
(* loop, the constructor of a device subscribes its topics, and the device  *)
(* enters self.devices when the constructor has returned. Each device has   *)
(* its own gateway, so a device's constructor has run when its topics are   *)
(* subscribed, and the loop is at the first row that is not registered.     *)

\* the topics that the constructor of a row's device subscribes
TopicsOf(row) ==
    {<<row.productId, row.gateway.uid, "business">>,
     <<row.gateway.productId, row.gateway.uid, "upload/point/data">>}

\* the loop of async_get_devices has registered the rows before the i-th
RegisteredBefore(i) == \A j \in 1..(i - 1) : rows[j].extAddr \in DOMAIN devices

\* device = SmartDevice(...) for the i-th row, after self.devices = {} for
\* the first
SmartDeviceInit(i) ==
    /\ _mqtt = "client"
    /\ i \in 1..Len(rows)
    /\ RegisteredBefore(i)
    /\ ~(TopicsOf(rows[i]) \subseteq subscribed)
    /\ LET parsed == parse_data_points(KeysOf(rows[i]))
           w      == IF i = 1 THEN [World EXCEPT !.devices = [m \in {} |-> {}]] ELSE World
       IN  Commit(IF parsed.exc # "none" THEN [w EXCEPT !.raised = parsed.exc]
                  ELSE Subscribe(w, rows[i]))
    /\ last' = Last("SmartDevice", rows[i].extAddr, <<>>, i, PyNone, FALSE)
    /\ UNCHANGED <<rows, inbox, ret, arg, sending, updating>>

\* self.devices[device.mac_address] = device, for the i-th row
RegisterDevice(i) ==
    /\ i \in 1..Len(rows)
    /\ RegisteredBefore(i)
    /\ TopicsOf(rows[i]) \subseteq subscribed
    /\ rows[i].extAddr \notin DOMAIN devices
    /\ Commit(Register(World, Device(rows[i], KeysOf(rows[i]),
                                     parse_data_points(KeysOf(rows[i])))))
    /\ last' = Last("register", rows[i].extAddr, <<>>, i, PyNone, FALSE)
    /\ UNCHANGED <<rows, inbox, ret, arg, sending, updating>>

MAC3 == "11:22"

\* two devices of two gateways
RouteRows ==
    <<Row(MAC, "u1", <<Point(FOO, 1, 8, PyInt(0)),
                       Point(PARAM_ID_SYS_DEVICE_MODULE, 2, 1, PyInt(0)),
                       Point(PARAM_ID_TH_DELETE_TH_ADDR, 3, 1, PyInt(0))>>),
      Row(MAC3, "u3", <<Point(FOO, 1, 1, PyInt(0)),
                        Point(PARAM_ID_SYS_DEVICE_MODULE, 2, 1, PyInt(0)),
                        Point(PARAM_ID_TH_DELETE_TH_ADDR, 3, 1, PyInt(0))>>)>>

\* the entries of the messages for the two devices
RouteEntries ==
    {Entry(98, MAC, <<<<FOO, PyInt(42)>>>>),
     Entry(98, MAC3, <<<<FOO, PyInt(7)>>>>),
     Entry(98, MAC3, <<<<PARAM_ID_SYS_DEVICE_MODULE, PyInt(5)>>, <<FOO, PyInt(8)>>>>)}

InitRoute ==
    /\ Blank
    /\ rows = RouteRows
    /\ arg = PyNone

NextRoute ==
    \/ MqttConnect
    \/ \E i \in 1..Len(rows) : SmartDeviceInit(i)
    \/ \E i \in 1..Len(rows) : RegisterDevice(i)
    \/ Arrive("command")
    \/ \E d \in RouteEntries : Len(inbox.data) < MaxEntries /\ AppendEntry(d)
    \/ OnMqttMessage(Registration)

SpecRoute == InitRoute /\ [][NextRoute]_vars

\* the row of a mac
RowOf(mac) == rows[CHOOSE i \in 1..Len(rows) : rows[i].extAddr = mac]

\* the message that was delivered has entries, each a cmd 98 for a device of
\* the list whose constructor had subscribed its topics
ForSubscribedDevices ==
    /\ last.op = "on_mqtt_message"
    /\ inbox.method = "command"
    /\ inbox.data # <<>>
    /\ \A i \in 1..Len(inbox.data) :
           /\ inbox.data[i].cmd = 98
           /\ \E j \in 1..Len(rows) : rows[j].extAddr = inbox.data[i].mac
           /\ TopicsOf(RowOf(inbox.data[i].mac)) \subseteq subscribed

\* C26: a cmd 98 message for a device, delivered after the constructor of the
\* device subscribed its topics, finds the device in self.devices and is
\* applied, at whatever point of async_get_devices it is delivered
SubscribedDeviceIsRoutable ==
    ForSubscribedDevices =>
        /\ raised = "none"
        /\ \A i \in 1..Len(inbox.data) :
               /\ inbox.data[i].mac \in DOMAIN devices
               /\ Routed(inbox.data, inbox.data[i].mac, devices)

-----------------------------------------------------------------------------
(* The entities of the home and their mutators.                            *)

\* the modes the host can ask for: those of the table and one more
AllModes == HvacModes \cup {"cool"}

\* the command message that arrives: a work mode outside the mode table
ThermostatMessages == {<<Entry(98, MAC, <<<<PARAM_ID_TH_WORK_MODE, PyInt(2)>>>>)>>}

InitThermostat ==
    /\ Blank
    /\ rows = <<HomeRow>>
    /\ arg = PyFloat(Decimal(205, 10))

NextThermostat ==
    \/ MqttConnect
    \/ _mqtt = "client" /\ AsyncGetDevices
    \/ AsyncForwardEntrySetups(MAC)
    \/ \E hvac_mode \in AllModes : ClimateSetHvacMode(MAC, 1, hvac_mode)
    \/ ClimateSetTemperature(MAC, 1)
    \/ NumberSetNativeValue(MAC, 1)
    \/ SwitchTurnOn(MAC, 1)
    \/ \E data \in ThermostatMessages : DeliverCommand(data, Registration)

SpecThermostat == InitThermostat /\ [][NextThermostat]_vars

\* the thermostat's _handle_update is registered on its work mode
ThermostatListens(device) == 1 \in device.data_points[PARAM_ID_TH_WORK_MODE]._listener

\* the key and the value that the mutator of the step hands to set_value,
\* for the mutators that hand it a value of theirs or their argument
SetBy(op, device) ==
    CASE op = "switch.turn_on" -> <<device.switches_data[1].data_point, PyInt(1)>>
      [] op = "climate.set_temperature" -> <<device.climate_data[1].target_temp, arg>>
      [] op = "number.set_native_value" -> <<device.numbers_data[1].data_point, arg>>

\* the mutators that SetBy knows
SettingOps == {"switch.turn_on", "climate.set_temperature", "number.set_native_value"}

\* the DataPoint holds the encoding of the value, and get_value returns the
\* value: the int for a point of type 1, the float for a point of type 2
HoldsNew(dp, value) ==
    /\ dp.value = encode(dp.point_type, value).val
    /\ get_value(dp).exc = "none"
    /\ get_value(dp).val = IF dp.point_type = 2 THEN py_float(value).val ELSE value

\* C27: a mutator of an entity, and the set_value it calls, invoke no
\* listener and leave the values that the entities cache as they are, while
\* get_value of the DataPoint returns the new value
SetValueInvokesNoListener ==
    [][(last'.op \in MutatorOps /\ raised' = "none") =>
          /\ cache' = cache
          /\ \A c \in Callbacks : calls'[c] = 0
          /\ last'.op \in SettingOps =>
                 HoldsNew(devices'[MAC].data_points[SetBy(last'.op, devices[MAC])[1]],
                          SetBy(last'.op, devices[MAC])[2])]_vars

\* the thermostat was set to 20.5 after the entities were set up: its
\* point returns 20.5 and the entity still has the 20.0 of its setup; an
\* inbound update of the point has then refreshed the entity
SetValueInvokesNoListenerWitness ==
    /\ last.op = "climate.set_temperature"
    /\ raised = "none"
    /\ ThermostatListens(devices[MAC])
    /\ get_value(devices[MAC].data_points[PARAM_ID_TH_TRG_ROOM_TEMP]).val = arg
    /\ cache[1].target_temperature = PyFloat(Decimal(200, 10))
    /\ cache[3].is_on = PyBool(FALSE)
    /\ Len(published) = 1

\* the wire value of a mode of the table
WireOf(hvac_mode) ==
    CASE hvac_mode = "auto" -> 0
      [] hvac_mode = "heat" -> 1
      [] hvac_mode = "off"  -> 4

\* the mode that the thermostat shows for a wire value
ShownMode(value) ==
    CASE value = PyInt(0) -> PyStr("auto")
      [] value = PyInt(1) -> PyStr("heat")
      [] value = PyInt(4) -> PyStr("off")
      [] OTHER            -> PyNone

\* C29: set_hvac_mode(m) of the thermostat publishes exactly one command for
\* AUTO, HEAT and OFF, with the wire value 0, 1 and 4 that it writes to the
\* work mode point, and for another mode publishes nothing and changes
\* nothing; the thermostat shows a wire value outside 0, 1, 4 as no mode
SetHvacModeFollowsTable ==
    [][/\ \A m \in AllModes :
              ClimateSetHvacMode(MAC, 1, m) =>
                  IF m \in {"auto", "heat", "off"}
                  THEN /\ raised' = "none"
                       /\ Len(published') = Len(published) + 1
                       /\ published'[Len(published')].payload.data[1].command[1]
                              = [i |-> devices[MAC].data_points[PARAM_ID_TH_WORK_MODE].index,
                                 t |-> 1, len |-> 0, v |-> PyInt(WireOf(m))]
                       /\ devices'[MAC].data_points[PARAM_ID_TH_WORK_MODE].value
                              = PyInt(WireOf(m))
                  ELSE /\ raised' = "none"
                       /\ UNCHANGED <<devices, published, _mqtt_serial, subscribed, cache>>
       /\ (/\ last'.op = "on_mqtt_message"
           /\ raised' = "none"
           /\ ThermostatListens(devices[MAC])
           /\ \E i \in 1..Len(PairsFor(inbox'.data, MAC)) :
                  PairsFor(inbox'.data, MAC)[i][1] = PARAM_ID_TH_WORK_MODE) =>
              cache'[1].hvac_mode
                  = ShownMode(devices'[MAC].data_points[PARAM_ID_TH_WORK_MODE].value)]_vars

\* the thermostat showed no mode for the wire value 2, and was then set to
\* OFF, which wrote and published 4
SetHvacModeFollowsTableWitness ==
    /\ last.op = "climate.set_hvac_mode"
    /\ raised = "none"
    /\ ThermostatListens(devices[MAC])
    /\ last.pre.devices[MAC].data_points[PARAM_ID_TH_WORK_MODE].value = PyInt(2)
    /\ cache[1].hvac_mode = PyNone
    /\ devices[MAC].data_points[PARAM_ID_TH_WORK_MODE].value = PyInt(4)
    /\ Len(published) = Len(last.pre.published) + 1
    /\ published[Len(published)].payload.data[1].command[1].v = PyInt(4)

-----------------------------------------------------------------------------
(* The entities of several points after a message.                         *)

\* what the thermostat and the water heater show when they have read the
\* current values of their points
ThermostatShows(device) ==
    [current_temperature |-> get_value(device.data_points[device.climate_data[1].current_temp]).val,
     target_temperature  |-> get_value(device.data_points[device.climate_data[1].target_temp]).val,
     hvac_mode |-> ShownMode(device.data_points[device.climate_data[1].hvac_mode].value)]

WaterHeaterShows(device) ==
    [current_temperature |->
         get_value(device.data_points[device.water_heaters[1].current_temp]).val,
     target_temperature |->
         get_value(device.data_points[device.water_heaters[1].target_temp]).val]

\* the points that the thermostat and the water heater listen on
ThermostatPoints(device) ==
    {device.climate_data[1].current_temp, device.climate_data[1].target_temp,
     device.climate_data[1].hvac_mode}

WaterHeaterPoints(device) ==
    {device.water_heaters[1].current_temp, device.water_heaters[1].target_temp}

\* the number of pairs that name one of the keys
Naming(pairs, keys) == Cardinality({i \in 1..Len(pairs) : pairs[i][1] \in keys})

\* C30: when the router has handled a message to its end, the thermostat
\* and the water heater have been refreshed once per pair that names one of
\* their points, and an entity that was refreshed shows the decoded current
\* values of all its points; the refresh after the first of the
\* thermostat's three pairs shows the new current temperature beside the
\* target temperature and the mode from before the message
EntitiesShowCurrentValues ==
    [][(/\ last'.op = "on_mqtt_message"
        /\ raised' = "none"
        /\ MAC \in DOMAIN devices
        /\ ThermostatListens(devices[MAC])) =>
           /\ calls'[1] = Naming(PairsFor(inbox'.data, MAC), ThermostatPoints(devices[MAC]))
           /\ calls'[2] = Naming(PairsFor(inbox'.data, MAC), WaterHeaterPoints(devices[MAC]))
           /\ calls'[1] > 0 => cache'[1] = ThermostatShows(devices'[MAC])
           /\ calls'[2] > 0 => cache'[2] = WaterHeaterShows(devices'[MAC])
           /\ inbox'.data = <<ThermostatEntry>> =>
                  handle_mqtt_command(World, MAC, SubSeq(ThermostatEntry.command, 1, 1),
                                      Registration).cache[1]
                      = [ThermostatShows(devices[MAC]) EXCEPT
                             !.current_temperature = ThermostatShows(devices'[MAC]).current_temperature]
      ]_vars

\* a message with the work mode and the boiler's temperatures, then the
\* thermostat's three points, was handled: four refreshes of the thermostat,
\* two of the water heater
EntitiesShowCurrentValuesWitness ==
    /\ last.op = "on_mqtt_message"
    /\ raised = "none"
    /\ inbox.data = <<BoilerEntry, ThermostatEntry>>
    /\ ThermostatListens(devices[MAC])
    /\ calls[1] = 4
    /\ calls[2] = 2
    /\ cache[1] = [current_temperature |-> PyFloat(Decimal(215, 10)),
                   target_temperature |-> PyFloat(Decimal(220, 10)),
                   hvac_mode |-> PyStr("heat")]
    /\ cache[2] = [current_temperature |-> PyFloat(Decimal(500, 10)),
                   target_temperature |-> PyFloat(Decimal(650, 10))]

====
